---------------------------- MODULE Spec2Model ----------------------------
(***************************************************************************)
(* Model of the quiche-nwep build tooling.                                 *)
(*                                                                         *)
(* Spec      : scripts/build.ts, the interactive cross-platform builder:   *)
(*             prerequisite probes, target filtering, the prompts, the     *)
(*             parallel and the sequential build branch of main, the       *)
(*             event handlers of buildPlatform, the summary and the exit.  *)
(* PairSpec  : two buildPlatform calls that differ only in                 *)
(*             options.verbose, driven by one and the same child.          *)
(*                                                                         *)
(* JavaScript strings are modelled as sequences of string tokens, so that  *)
(* '' is << >>, + is \o and `a || b` on strings is "a unless it is         *)
(* empty".  An exit code (number | null) is << n >> or << >> (null).       *)
(* An optional field of an object is a record field that may be missing.   *)
(***************************************************************************)
EXTENDS Integers, Sequences, FiniteSets, TLC

(***************************************************************************)
(* Bounds of the model.                                                    *)
(***************************************************************************)
\* Largest number of platforms ticked in the multiselect prompt.
MaxSelected == 2
\* Largest number of 'data' events a child delivers per stream.
MaxChunks == 1
\* Date.now() - startTime is read as a value of 0..MaxElapsed.
MaxElapsed == 0
\* The largest number a version component starts with.
MaxComponent == 10
\* The largest number of dot-separated parts of a version text in a manifest.
MaxParts == 4

(***************************************************************************)
(* Platform registry (build.ts, PLATFORMS).  label and description are     *)
(* presentation only and left out; buildCommand is the operator below.     *)
(***************************************************************************)
\* Faulty variant of PLATFORMS: the native entry requires the cross helper.
PlatformsNativeNeedsCross ==
  << [id |-> "windows-x64-gnu",  target |-> "x86_64-pc-windows-gnu",         requiresCross |-> TRUE],
     [id |-> "windows-x64-msvc", target |-> "x86_64-pc-windows-msvc",        requiresCross |-> TRUE],
     [id |-> "android-arm64",    target |-> "aarch64-linux-android",         requiresDocker |-> TRUE],
     [id |-> "android-arm32",    target |-> "armv7-linux-androideabi",       requiresDocker |-> TRUE],
     [id |-> "android-x64",      target |-> "x86_64-linux-android",          requiresDocker |-> TRUE],
     [id |-> "android-x86",      target |-> "i686-linux-android",            requiresDocker |-> TRUE],
     [id |-> "linux-arm64",      target |-> "aarch64-unknown-linux-gnu",     requiresCross |-> TRUE],
     [id |-> "linux-armv7",      target |-> "armv7-unknown-linux-gnueabihf", requiresCross |-> TRUE],
     [id |-> "native", requiresCross |-> TRUE] >>

PLATFORMS ==
  << [id |-> "windows-x64-gnu",  target |-> "x86_64-pc-windows-gnu",         requiresCross |-> TRUE],
     [id |-> "windows-x64-msvc", target |-> "x86_64-pc-windows-msvc",        requiresCross |-> TRUE],
     [id |-> "android-arm64",    target |-> "aarch64-linux-android",         requiresDocker |-> TRUE],
     [id |-> "android-arm32",    target |-> "armv7-linux-androideabi",       requiresDocker |-> TRUE],
     [id |-> "android-x64",      target |-> "x86_64-linux-android",          requiresDocker |-> TRUE],
     [id |-> "android-x86",      target |-> "i686-linux-android",            requiresDocker |-> TRUE],
     [id |-> "linux-arm64",      target |-> "aarch64-unknown-linux-gnu",     requiresCross |-> TRUE],
     [id |-> "linux-armv7",      target |-> "armv7-unknown-linux-gnueabihf", requiresCross |-> TRUE],
     [id |-> "native"] >>

\* The values of FEATURE_OPTIONS, in the order the prompt lists them.
FEATURE_OPTIONS == << "ffi", "qlog", "sfv" >>

\* p.requiresCross / p.requiresDocker read as a condition: a missing
\* optional field is undefined, which is falsy.
RequiresCross(p) == "requiresCross" \in DOMAIN p /\ p.requiresCross
RequiresDocker(p) == "requiresDocker" \in DOMAIN p /\ p.requiresDocker
HasTarget(p) == "target" \in DOMAIN p

\* Array.prototype.join(',') over a list of string tokens.
RECURSIVE Join(_)
Join(fs) ==
  IF Len(fs) = 0 THEN << >>
  ELSE IF Len(fs) = 1 THEN << fs[1] >>
  ELSE << fs[1], "," >> \o Join(Tail(fs))

\* `${opts.mode === 'release' ? '--release' : ''}`
ReleaseFlag(opts) == IF opts.mode = "release" THEN << "--release" >> ELSE << >>

\* platform.buildCommand(options): the command template of each registry entry.
buildCommand(p, opts) ==
  IF RequiresDocker(p)
    THEN << "docker build -f Dockerfile.android --build-arg ANDROID_TARGET=", p.target,
            " --build-arg CARGO_FEATURES=" >> \o Join(opts.features)
            \o << " -t quiche-nwep-", p.id, " ." >>
  ELSE IF RequiresCross(p)
    THEN << "cross build " >> \o ReleaseFlag(opts) \o << " --target ", p.target, " --features " >>
            \o Join(opts.features)
  ELSE << "cargo build " >> \o ReleaseFlag(opts) \o << " --features " >>
            \o Join(opts.features) \o << " --workspace" >>

(***************************************************************************)
(* buildPlatform (build.ts 171-232): the values its handlers compute.      *)
(***************************************************************************)
\* Exit codes a 'close' event carries: 0, a failure code, null (signal).
ExitCodes == { << 0 >>, << 1 >>, << >> }
\* The code of the 'close' event that follows a failed spawn (-errno).
SpawnFailCode == << -2 >>
\* error.message of a spawn error; Node never reports an empty message.
SpawnErrorMessage == << "spawn /bin/sh ENOENT" >>
\* Text of one 'data' chunk of each stream.
StdoutChunk == << "out" >>
StderrChunk == << "err" >>
Elapsed == 0 .. MaxElapsed

\* `${code}` in a template literal.
CodeText(code) ==
  IF code = << >> THEN "null"
  ELSE IF code = << 0 >> THEN "0"
  ELSE IF code = << 1 >> THEN "1"
  ELSE "-2"

\* a || b on strings: a unless a is the empty string.
OrElse(a, b) == IF a # << >> THEN a ELSE b

\* Faulty variant of OutputPath: the toolchain triple is left out of the path.
OutputPathNoTriple(platform, options) == << "target/", options.mode, "/" >>

\* The outputPath of the close handler's success branch (203-205).
OutputPath(platform, options) ==
  IF HasTarget(platform)
    THEN << "target/", platform.target, "/", options.mode, "/" >>
    ELSE << "target/", options.mode, "/" >>

\* Faulty variant of CloseError: no fallback text when both buffers are empty.
CloseErrorNoFallback(child, code) == OrElse(child.errorOutput, child.output)

\* Faulty variant of CloseError: both buffers concatenated, stderr first.
CloseErrorConcat(child, code) ==
  OrElse(child.errorOutput \o child.output,
         << "Build failed with exit code ", CodeText(code) >>)

\* The error of the close handler's failure branch (218).
CloseError(child, code) ==
  OrElse(child.errorOutput,
         OrElse(child.output, << "Build failed with exit code ", CodeText(code) >>))

\* Faulty variant of CloseResult: the output path is reported in quiet mode only.
CloseResultPathQuietOnly(platform, options, child, code, duration) ==
  IF code = << 0 >>
    THEN IF options.verbose
           THEN [platform |-> platform, success |-> TRUE, duration |-> duration]
           ELSE [platform |-> platform, success |-> TRUE, duration |-> duration,
                 outputPath |-> OutputPath(platform, options)]
    ELSE [platform |-> platform, success |-> FALSE, duration |-> duration,
          error |-> CloseError(child, code)]

\* The BuildResult the 'close' handler passes to resolve (199-221).
CloseResult(platform, options, child, code, duration) ==
  IF code = << 0 >>
    THEN [platform |-> platform, success |-> TRUE, duration |-> duration,
          outputPath |-> OutputPath(platform, options)]
    ELSE [platform |-> platform, success |-> FALSE, duration |-> duration,
          error |-> CloseError(child, code)]

\* The BuildResult the 'error' handler passes to resolve (223-230).
ErrorResult(platform, message, duration) ==
  [platform |-> platform, success |-> FALSE, duration |-> duration, error |-> message]

\* A promise: pending, fulfilled with a value, or rejected.
Pending == [status |-> "pending"]
Fulfilled(v) == [status |-> "fulfilled", value |-> v]
Rejected == [status |-> "rejected"]
IsSettled(p) == p.status # "pending"

\* Faulty variant of Resolve: every call replaces the value of the promise.
ResolveLastWins(promise, value) == Fulfilled(value)

\* resolve(value) of `new Promise((resolve) => ...)`: only the first call
\* settles the promise, later calls are ignored.
Resolve(promise, value) ==
  IF promise.status = "pending" THEN Fulfilled(value) ELSE promise

\* The child process object right after spawn (181-187): its stdio mode,
\* the two closure buffers, and the close/error events it has emitted.
\* state: "spawned" (no close or error event yet), "errored", "closed".
NewChild(options) ==
  [stdio |-> IF options.verbose THEN "inherit" ELSE "pipe",
   state |-> "spawned", output |-> << >>, errorOutput |-> << >>,
   events |-> << >>]

\* child.stdout 'data' handler (190-192) and child.stderr 'data' handler (194-196).
OnStdoutData(child, data) == [child EXCEPT !.output = @ \o data]
OnStderrData(child, data) == [child EXCEPT !.errorOutput = @ \o data]

\* Faulty variant of OnClose: the failure branch forgets to call resolve.
OnCloseResolvesSuccessOnly(child, promise, platform, options, code, duration) ==
  [child |-> [child EXCEPT !.state = "closed",
                           !.events = Append(@, [type |-> "close", code |-> code])],
   promise |-> IF code = << 0 >>
                 THEN Resolve(promise, CloseResult(platform, options, child, code, duration))
                 ELSE promise]

\* The 'close' handler (199-221) run with the given exit code: the child
\* object and the promise afterwards.
OnClose(child, promise, platform, options, code, duration) ==
  [child |-> [child EXCEPT !.state = "closed",
                           !.events = Append(@, [type |-> "close", code |-> code])],
   promise |-> Resolve(promise, CloseResult(platform, options, child, code, duration))]

\* Faulty variant of OnError: the handler rejects the promise (child.on('error', reject)).
OnErrorReject(child, promise, platform, message, duration) ==
  [child |-> [child EXCEPT !.state = "errored",
                           !.events = Append(@, [type |-> "error"])],
   promise |-> IF promise.status = "pending" THEN Rejected ELSE promise]

\* The 'error' handler (223-230).
OnError(child, promise, platform, message, duration) ==
  [child |-> [child EXCEPT !.state = "errored",
                           !.events = Append(@, [type |-> "error"])],
   promise |-> Resolve(promise, ErrorResult(platform, message, duration))]

(***************************************************************************)
(* State of one run of the build script (build.ts, main).                  *)
(***************************************************************************)
VARIABLES
  pc,                 \* where main is: a prompt, a build branch, an exit
  hasCross,           \* result of checkPrerequisites
  hasDocker,
  availablePlatforms, \* PLATFORMS filtered by the available tools
  selectedPlatforms,  \* the platforms ticked by the operator, registry order
  buildMode,          \* answers of the prompts
  features,
  parallel,
  verbose,
  i,                  \* index of the map callback / of the for loop (1-based)
  children,           \* child process objects, in spawn order
  promises,           \* promises returned by buildPlatform, in call order
  results,            \* const results: BuildResult[]
  successful,         \* results.filter(r => r.success)
  failed,             \* results.filter(r => !r.success)
  exitCode,           \* argument of process.exit, << >> while running
  spawnLog,           \* every spawn() call made, in order
  settleLog,          \* indices of the promises, in the order they settled
  registry,           \* the PLATFORMS array main filters
  currentParsed,      \* workflow.ts: const currentParsed (a Version)
  versionAction,      \* workflow.ts: answer of the 'Version update:' prompt
  bumpResults,        \* what the bump implementations returned
  quicheToml,         \* content of quiche/Cargo.toml
  readResults,        \* what the version readers returned
  workspaceToml,      \* content of the workspace Cargo.toml
  currentVersion,     \* workflow.ts: const currentVersion
  newVersion,         \* workflow.ts: let newVersion
  versionChanged,     \* workflow.ts: let versionChanged
  buildRan,           \* workflow.ts: const buildRan
  effects,            \* manifest writes and commands run, in order
  releasePrompt,      \* the version named by the release prompt, once shown
  dialog,             \* workflow.ts: git status results, prompts and answers, log lines
  cargoText,          \* a manifest as the text readFileSync returns
  written,            \* the version writes made to cargoText, in order
  targetChoice,       \* legacy release script: targetChoice.targets
  useDocker,          \* legacy release script: const useDocker
  containers,         \* the containers the docker daemon holds
  release,            \* the GitHub release of the tag: its assets, << >> if none
  assets,             \* release script: const assets (platforms packaged)
  probes,             \* how the two probe commands of checkPrerequisites end, once fixed
  shell               \* check-deps.sh: the installed tools and the script's counters

vars == << pc, hasCross, hasDocker, availablePlatforms, selectedPlatforms,
           buildMode, features, parallel, verbose, i, children, promises,
           results, successful, failed, exitCode, spawnLog, settleLog,
           registry, currentParsed, versionAction, bumpResults, quicheToml,
           readResults, workspaceToml, currentVersion, newVersion,
           versionChanged, buildRan, effects, releasePrompt, dialog,
           cargoText, written, targetChoice, useDocker, containers, release,
           assets, probes, shell >>

\* The orchestrator's own variables (workflow.ts, main).
workflowVars == << workspaceToml, currentVersion, newVersion, versionChanged,
                   buildRan, effects, releasePrompt, dialog >>

\* The manifest text of the version writers.
textVars == << cargoText, written >>

\* The state of the release scripts (part_002) and of what they act on.
scriptVars == << targetChoice, useDocker, containers, release, assets >>

\* What the build script's steps never assign.
extVars == << registry, currentParsed, versionAction, bumpResults, quicheToml,
              readResults, workflowVars, textVars, scriptVars, probes, shell >>

promptVars == << buildMode, features, parallel, verbose >>
buildVars == << i, children, promises, results, spawnLog, settleLog >>
summaryVars == << successful, failed >>

\* const buildOptions (363-368): built once from the answers, never mutated.
BuildOptions ==
  [mode |-> buildMode, features |-> features, parallel |-> parallel, verbose |-> verbose]

\* Faulty variant of AvailablePlatforms: only the container requirement is
\* looked at.
AvailableIgnoringCross(platforms, cross, docker) ==
  SelectSeq(platforms, LAMBDA p : ~ (RequiresDocker(p) /\ ~docker))

\* PLATFORMS.filter(...) of lines 259-263.
AvailablePlatforms(platforms, cross, docker) ==
  SelectSeq(platforms, LAMBDA p :
    ~ (RequiresCross(p) /\ ~cross) /\ ~ (RequiresDocker(p) /\ ~docker))

\* availablePlatforms.filter(p => ids.includes(p.id)) of lines 286-288.
FilterSelected(available, ids) == SelectSeq(available, LAMBDA p : p.id \in ids)

\* The ids of a platform list.
Ids(available) == { available[k].id : k \in 1 .. Len(available) }

\* One platform of each toolchain (cross, docker, cargo): the platforms that
\* are combined in selections of more than one platform.
Representatives == { "windows-x64-gnu", "android-arm64", "native" }

\* The selections the multiselect prompt returns (required: true, so never
\* empty): every single available platform, and every combination of 2 to
\* MaxSelected available representatives.
Selections(available) ==
  { { id } : id \in Ids(available) }
  \cup { ids \in SUBSET (Ids(available) \cap Representatives) :
           Cardinality(ids) >= 2 /\ Cardinality(ids) <= MaxSelected }

\* The feature lists the multiselect prompt returns, in option order: none
\* ticked, and two ticked.
FeatureLists ==
  { SelectSeq(FEATURE_OPTIONS, LAMBDA f : f \in fs) : fs \in { {}, { "ffi", "qlog" } } }

\* Outcomes of a probe command run by execSync.
ProbeOutcomes == { "exit0", "nonzero", "spawnError" }

\* The build script's own state while no build script step has run.
BuildIdle ==
  /\ probes = << >>
  /\ shell = << >>
  /\ hasCross = FALSE
  /\ hasDocker = FALSE
  /\ availablePlatforms = << >>
  /\ selectedPlatforms = << >>
  /\ buildMode = "unset"
  /\ features = << >>
  /\ parallel = FALSE
  /\ verbose = FALSE
  /\ i = 1
  /\ children = << >>
  /\ promises = << >>
  /\ results = << >>
  /\ successful = << >>
  /\ failed = << >>
  /\ spawnLog = << >>
  /\ settleLog = << >>

\* The orchestrator's variables while the orchestrator does not run.
WorkflowRunIdle ==
  /\ workspaceToml = << >>
  /\ currentVersion = << >>
  /\ newVersion = << >>
  /\ versionChanged = FALSE
  /\ buildRan = FALSE
  /\ effects = << >>
  /\ releasePrompt = << >>
  /\ dialog = << >>

\* No manifest text read or written.
TextIdle ==
  /\ cargoText = << >>
  /\ written = << >>

\* No release script has run.
ScriptIdle ==
  /\ targetChoice = << >>
  /\ useDocker = FALSE
  /\ containers = { }
  /\ release = << >>
  /\ assets = << >>

\* The orchestrator's and the version functions' state while only the build
\* script runs.
WorkflowIdle ==
  /\ WorkflowRunIdle
  /\ currentParsed = << >>
  /\ versionAction = "unset"
  /\ bumpResults = << >>
  /\ quicheToml = << >>
  /\ readResults = << >>
  /\ TextIdle
  /\ ScriptIdle

\* main before its first statement: nothing probed, asked or spawned.
MainStart ==
  /\ pc = "checkPrerequisites"
  /\ exitCode = << >>
  /\ BuildIdle
  /\ WorkflowIdle

\* A run of the build script as shipped: main filters the PLATFORMS array.
Init ==
  /\ MainStart
  /\ registry = PLATFORMS

\* process.exit(code) after cancel('Build cancelled.').
Cancelled ==
  /\ pc' = "cancelled"
  /\ exitCode' = << 0 >>

\* Faulty variant of CheckPrerequisites: the empty list is not looked at and
\* main goes on to the platform prompt.
CheckPrerequisitesNoEmptyCheck ==
  /\ UNCHANGED extVars
  /\ pc = "checkPrerequisites"
  /\ \E crossProbe \in ProbeOutcomes, dockerProbe \in ProbeOutcomes :
       /\ hasCross' = (crossProbe = "exit0")
       /\ hasDocker' = (dockerProbe = "exit0")
       /\ availablePlatforms' =
            AvailablePlatforms(registry, crossProbe = "exit0", dockerProbe = "exit0")
  /\ pc' = "selectPlatforms"
  /\ UNCHANGED << exitCode, selectedPlatforms, promptVars, buildVars, summaryVars >>

\* execSync(command, { stdio: 'ignore' }) returns when the command ended with
\* status 0 and throws for every other outcome.
ProbeReturned(outcome) == outcome = "exit0"

\* Faulty variant of checkPrerequisites: both probes share one try block, so
\* docker is not probed after a failed cross probe.
checkPrerequisitesOneTry(crossProbe, dockerProbe) ==
  [threw |-> FALSE,
   hasCross |-> ProbeReturned(crossProbe),
   hasDocker |-> ProbeReturned(crossProbe) /\ ProbeReturned(dockerProbe)]

\* checkPrerequisites (139-158): each probe in its own try, with a catch that
\* takes every exception; the flag is set after the execSync that returned.
checkPrerequisites(crossProbe, dockerProbe) ==
  [threw |-> FALSE,
   hasCross |-> ProbeReturned(crossProbe),
   hasDocker |-> ProbeReturned(dockerProbe)]

\* Line 257 and the filter of 259-268, for the given ends of the probes.
CheckPrerequisitesWith(crossProbe, dockerProbe) ==
  /\ UNCHANGED extVars
  /\ pc = "checkPrerequisites"
  /\ LET detected == checkPrerequisites(crossProbe, dockerProbe)
         available == AvailablePlatforms(registry, detected.hasCross, detected.hasDocker)
     IN IF detected.threw
          THEN /\ pc' = "fatal"
               /\ exitCode' = << 1 >>
               /\ UNCHANGED << hasCross, hasDocker, availablePlatforms >>
          ELSE /\ hasCross' = detected.hasCross
               /\ hasDocker' = detected.hasDocker
               /\ availablePlatforms' = available
               /\ IF Len(available) = 0
                    THEN pc' = "noTargets" /\ exitCode' = << 1 >>
                    ELSE pc' = "selectPlatforms" /\ exitCode' = exitCode
  /\ UNCHANGED << selectedPlatforms, promptVars, buildVars, summaryVars >>

\* checkPrerequisites (139-158) and the filter of 259-268.
CheckPrerequisites ==
  \E crossProbe \in ProbeOutcomes, dockerProbe \in ProbeOutcomes :
    CheckPrerequisitesWith(crossProbe, dockerProbe)

\* multiselect 'Select platforms to build:' (271-288).
SelectPlatforms ==
  /\ UNCHANGED extVars
  /\ pc = "selectPlatforms"
  /\ \/ /\ Cancelled
        /\ UNCHANGED selectedPlatforms
     \/ \E ids \in Selections(availablePlatforms) :
          /\ selectedPlatforms' = FilterSelected(availablePlatforms, ids)
          /\ pc' = "selectMode"
          /\ UNCHANGED exitCode
  /\ UNCHANGED << hasCross, hasDocker, availablePlatforms, promptVars, buildVars, summaryVars >>

\* select 'Select build mode:' (291-302).
SelectMode ==
  /\ UNCHANGED extVars
  /\ pc = "selectMode"
  /\ \/ /\ Cancelled
        /\ UNCHANGED buildMode
     \/ \E m \in { "release", "debug" } :
          /\ buildMode' = m
          /\ pc' = "selectFeatures"
          /\ UNCHANGED exitCode
  /\ UNCHANGED << hasCross, hasDocker, availablePlatforms, selectedPlatforms,
                  features, parallel, verbose, buildVars, summaryVars >>

\* multiselect 'Select features to enable:' (305-318).
SelectFeatures ==
  /\ UNCHANGED extVars
  /\ pc = "selectFeatures"
  /\ \/ /\ Cancelled
        /\ UNCHANGED features
     \/ \E fs \in FeatureLists :
          /\ features' = fs
          /\ pc' = "askParallel"
          /\ UNCHANGED exitCode
  /\ UNCHANGED << hasCross, hasDocker, availablePlatforms, selectedPlatforms,
                  buildMode, parallel, verbose, buildVars, summaryVars >>

\* confirm 'Build platforms in parallel?' (321-329).
AskParallel ==
  /\ UNCHANGED extVars
  /\ pc = "askParallel"
  /\ \/ /\ Cancelled
        /\ UNCHANGED parallel
     \/ \E b \in BOOLEAN :
          /\ parallel' = b
          /\ pc' = "askVerbose"
          /\ UNCHANGED exitCode
  /\ UNCHANGED << hasCross, hasDocker, availablePlatforms, selectedPlatforms,
                  buildMode, features, verbose, buildVars, summaryVars >>

\* confirm 'Show detailed build output?' (332-340).
AskVerbose ==
  /\ UNCHANGED extVars
  /\ pc = "askVerbose"
  /\ \/ /\ Cancelled
        /\ UNCHANGED verbose
     \/ \E b \in BOOLEAN :
          /\ verbose' = b
          /\ pc' = "confirmStart"
          /\ UNCHANGED exitCode
  /\ UNCHANGED << hasCross, hasDocker, availablePlatforms, selectedPlatforms,
                  buildMode, features, parallel, buildVars, summaryVars >>

\* confirm 'Start build?' (352-360) and the branch of line 373.
ConfirmStart ==
  /\ UNCHANGED extVars
  /\ pc = "confirmStart"
  /\ \/ Cancelled                       \* isCancel(shouldContinue) || !shouldContinue
     \/ /\ pc' = IF parallel THEN "map" ELSE "seqLoop"
        /\ UNCHANGED exitCode
  /\ UNCHANGED << hasCross, hasDocker, availablePlatforms, selectedPlatforms,
                  promptVars, buildVars, summaryVars >>

(***************************************************************************)
(* buildPlatform and the two build branches of main.                       *)
(***************************************************************************)
\* The synchronous part of buildPlatform(platform, buildOptions) (171-198):
\* the command is built, the child is spawned, the promise is returned.
BuildPlatformCall(k) ==
  /\ children' = Append(children, NewChild(BuildOptions))
  /\ promises' = Append(promises, Pending)
  /\ spawnLog' = Append(spawnLog,
       [index |-> k, platform |-> selectedPlatforms[k].id,
        command |-> buildCommand(selectedPlatforms[k], BuildOptions),
        stdio |-> IF BuildOptions.verbose THEN "inherit" ELSE "pipe"])

\* What an await sees (383, 395, 409, 421).  Promise.all rejects as soon as
\* one promise is rejected and is fulfilled once all of them are.
AllFulfilled(ps) == \A k \in 1 .. Len(ps) : ps[k].status = "fulfilled"
SomeRejected(ps) == \E k \in 1 .. Len(ps) : ps[k].status = "rejected"
PromiseAllSettled(ps) == SomeRejected(ps) \/ AllFulfilled(ps)

\* A continuation of main is ready to run.  Continuations are microtasks:
\* they run before the event loop delivers the next child event.
ContinuationReady ==
  \/ pc = "awaitAll" /\ PromiseAllSettled(promises)
  \/ pc = "seqAwait" /\ IsSettled(promises[i])

\* main is suspended in an await and the event loop may deliver an event
\* of child k to its handlers.
CanDeliver(k) ==
  /\ pc \in { "awaitAll", "seqAwait" }
  /\ ~ ContinuationReady
  /\ k \in 1 .. Len(children)

\* Once 'close' has been handled nothing reads the two buffers of the
\* closure again (no 'data' follows 'close'), so the run of the script does
\* not carry them further.
Released(child) ==
  IF child.state = "closed"
    THEN [child EXCEPT !.output = << >>, !.errorOutput = << >>]
    ELSE child

\* Child k and its promise after a handler ran; settleLog notes the first
\* settlement of each promise.
Handled(k, h) ==
  /\ children' = [children EXCEPT ![k] = Released(h.child)]
  /\ promises' = [promises EXCEPT ![k] = h.promise]
  /\ settleLog' = IF IsSettled(promises[k]) \/ ~ IsSettled(h.promise)
                    THEN settleLog ELSE Append(settleLog, k)

\* selectedPlatforms.map(platform => buildPlatform(platform, buildOptions))
\* (379-381, 390-393): one callback per step, no event is handled meanwhile.
ParallelMap ==
  /\ UNCHANGED extVars
  /\ pc = "map"
  /\ i <= Len(selectedPlatforms)
  /\ BuildPlatformCall(i)
  /\ i' = i + 1
  /\ pc' = IF i + 1 > Len(selectedPlatforms) THEN "awaitAll" ELSE "map"
  /\ UNCHANGED << hasCross, hasDocker, availablePlatforms, selectedPlatforms,
                  promptVars, results, settleLog, summaryVars, exitCode >>

\* Faulty variant of ParallelResults: the values in the order the promises settled.
ParallelResultsInSettleOrder(ps) == [k \in 1 .. Len(ps) |-> ps[settleLog[k]].value]

\* The value of await Promise.all(buildPromises): the values of the promises
\* in the order of the array, whatever the order they settled in.
ParallelResults(ps) == [k \in 1 .. Len(ps) |-> ps[k].value]

\* Faulty variant of ParallelAwait: each result is pushed as soon as its promise has
\* settled (buildPlatform(...).then(r => results.push(r))).
ParallelAwaitPushAsSettled ==
  /\ UNCHANGED extVars
  /\ pc = "awaitAll"
  /\ Len(settleLog) > Len(results)
  /\ promises[settleLog[Len(results) + 1]].status = "fulfilled"
  /\ results' = Append(results, promises[settleLog[Len(results) + 1]].value)
  /\ pc' = IF Len(results) + 1 = Len(promises) THEN "summary" ELSE "awaitAll"
  /\ UNCHANGED << hasCross, hasDocker, availablePlatforms, selectedPlatforms,
                  promptVars, i, children, promises, spawnLog, settleLog,
                  summaryVars, exitCode >>

\* await Promise.all(buildPromises); results.push(...parallelResults) (383-384, 395-396).
\* A rejection would be thrown in main and caught by main().catch (476-479).
ParallelAwait ==
  /\ UNCHANGED extVars
  /\ pc = "awaitAll"
  /\ PromiseAllSettled(promises)
  /\ IF SomeRejected(promises)
       THEN /\ pc' = "fatal"
            /\ exitCode' = << 1 >>
            /\ UNCHANGED results
       ELSE /\ results' = results \o ParallelResults(promises)
            /\ pc' = "summary"
            /\ UNCHANGED exitCode
  /\ UNCHANGED << hasCross, hasDocker, availablePlatforms, selectedPlatforms,
                  promptVars, i, children, promises, spawnLog, settleLog, summaryVars >>

\* Head of the for loop (402) and the call buildPlatform(platform, buildOptions)
\* of its body (409, 421).
SeqSpawn ==
  /\ UNCHANGED extVars
  /\ pc = "seqLoop"
  /\ IF i <= Len(selectedPlatforms)
       THEN /\ BuildPlatformCall(i)
            /\ pc' = "seqAwait"
       ELSE /\ pc' = "summary"
            /\ UNCHANGED << children, promises, spawnLog >>
  /\ UNCHANGED << hasCross, hasDocker, availablePlatforms, selectedPlatforms,
                  promptVars, i, results, settleLog, summaryVars, exitCode >>

\* Faulty variant of SeqResume: the loop is left at the first failed result.
SeqResumeStopOnFailure ==
  /\ UNCHANGED extVars
  /\ pc = "seqAwait"
  /\ IsSettled(promises[i])
  /\ promises[i].status = "fulfilled"
  /\ results' = Append(results, promises[i].value)
  /\ i' = i + 1
  /\ pc' = IF promises[i].value.success THEN "seqLoop" ELSE "summary"
  /\ UNCHANGED << hasCross, hasDocker, availablePlatforms, selectedPlatforms,
                  promptVars, children, promises, spawnLog, settleLog,
                  summaryVars, exitCode >>

\* const result = await buildPlatform(...); results.push(result); i++ (409-410, 421-422).
SeqResume ==
  /\ UNCHANGED extVars
  /\ pc = "seqAwait"
  /\ IsSettled(promises[i])
  /\ IF promises[i].status = "rejected"
       THEN /\ pc' = "fatal"
            /\ exitCode' = << 1 >>
            /\ UNCHANGED << results, i >>
       ELSE /\ results' = Append(results, promises[i].value)
            /\ i' = i + 1
            /\ pc' = "seqLoop"
            /\ UNCHANGED exitCode
  /\ UNCHANGED << hasCross, hasDocker, availablePlatforms, selectedPlatforms,
                  promptVars, children, promises, spawnLog, settleLog, summaryVars >>

\* A 'data' event of child.stdout (190-192).  Only a piped child has the stream.
StdoutData ==
  /\ UNCHANGED extVars
  /\ \E k \in 1 .. Len(children) :
    /\ CanDeliver(k)
    /\ children[k].state = "spawned"
    /\ children[k].stdio = "pipe"
    /\ Len(children[k].output) < MaxChunks
    /\ children' = [children EXCEPT ![k] = OnStdoutData(@, StdoutChunk)]
    /\ UNCHANGED << pc, hasCross, hasDocker, availablePlatforms, selectedPlatforms,
                    promptVars, i, promises, results, spawnLog, settleLog,
                    summaryVars, exitCode >>

\* A 'data' event of child.stderr (194-196).
StderrData ==
  /\ UNCHANGED extVars
  /\ \E k \in 1 .. Len(children) :
    /\ CanDeliver(k)
    /\ children[k].state = "spawned"
    /\ children[k].stdio = "pipe"
    /\ Len(children[k].errorOutput) < MaxChunks
    /\ children' = [children EXCEPT ![k] = OnStderrData(@, StderrChunk)]
    /\ UNCHANGED << pc, hasCross, hasDocker, availablePlatforms, selectedPlatforms,
                    promptVars, i, promises, results, spawnLog, settleLog,
                    summaryVars, exitCode >>

\* The child process of k exits and its 'close' event is delivered.
ChildClose ==
  /\ UNCHANGED extVars
  /\ \E k \in 1 .. Len(children), code \in ExitCodes, duration \in Elapsed :
    /\ CanDeliver(k)
    /\ children[k].state = "spawned"
    /\ Handled(k, OnClose(children[k], promises[k], selectedPlatforms[k],
                           BuildOptions, code, duration))
    /\ UNCHANGED << pc, hasCross, hasDocker, availablePlatforms, selectedPlatforms,
                    promptVars, i, results, spawnLog, summaryVars, exitCode >>

\* The process could not be spawned: the 'error' event is delivered, before
\* any output.
ChildError ==
  /\ UNCHANGED extVars
  /\ \E k \in 1 .. Len(children), duration \in Elapsed :
    /\ CanDeliver(k)
    /\ children[k].state = "spawned"
    /\ children[k].output = << >> /\ children[k].errorOutput = << >>
    /\ Handled(k, OnError(children[k], promises[k], selectedPlatforms[k],
                           SpawnErrorMessage, duration))
    /\ UNCHANGED << pc, hasCross, hasDocker, availablePlatforms, selectedPlatforms,
                    promptVars, i, results, spawnLog, summaryVars, exitCode >>

\* After a spawn error Node also emits 'close', with the negative errno as
\* the code; it may arrive while main awaits a later child.
ChildCloseAfterError ==
  /\ UNCHANGED extVars
  /\ \E k \in 1 .. Len(children), duration \in Elapsed :
    /\ CanDeliver(k)
    /\ children[k].state = "errored"
    /\ Handled(k, OnClose(children[k], promises[k], selectedPlatforms[k],
                           BuildOptions, SpawnFailCode, duration))
    /\ UNCHANGED << pc, hasCross, hasDocker, availablePlatforms, selectedPlatforms,
                    promptVars, i, results, spawnLog, summaryVars, exitCode >>

\* Faulty variant of ExitStatus: status 1 only when every build failed.
ExitStatusAllFailed(failedList) ==
  IF Len(failedList) > 0 /\ Len(failedList) = Len(results) THEN << 1 >> ELSE << 0 >>

\* The summary and process.exit(failed.length > 0 ? 1 : 0) (433-473).
ExitStatus(failedList) == IF Len(failedList) > 0 THEN << 1 >> ELSE << 0 >>

\* Faulty variant of Summary: the succeeded list takes every result.
SummaryListsAllAsSucceeded ==
  /\ UNCHANGED extVars
  /\ pc = "summary"
  /\ successful' = results
  /\ failed' = SelectSeq(results, LAMBDA r : ~ r.success)
  /\ exitCode' = ExitStatus(failed')
  /\ pc' = "done"
  /\ UNCHANGED << hasCross, hasDocker, availablePlatforms, selectedPlatforms,
                  promptVars, buildVars >>

Summary ==
  /\ UNCHANGED extVars
  /\ pc = "summary"
  /\ successful' = SelectSeq(results, LAMBDA r : r.success)
  /\ failed' = SelectSeq(results, LAMBDA r : ~ r.success)
  /\ exitCode' = ExitStatus(failed')
  /\ pc' = "done"
  /\ UNCHANGED << hasCross, hasDocker, availablePlatforms, selectedPlatforms,
                  promptVars, buildVars >>

Next ==
  \/ CheckPrerequisites
  \/ SelectPlatforms
  \/ SelectMode
  \/ SelectFeatures
  \/ AskParallel
  \/ AskVerbose
  \/ ConfirmStart
  \/ ParallelMap
  \/ ParallelAwait
  \/ SeqSpawn
  \/ SeqResume
  \/ StdoutData
  \/ StderrData
  \/ ChildClose
  \/ ChildError
  \/ ChildCloseAfterError
  \/ Summary

Spec == Init /\ [][Next]_vars

(***************************************************************************)
(* Properties of the build script, checked under Spec.                     *)
(***************************************************************************)
N == Len(selectedPlatforms)
BuildsRan == pc \in { "summary", "done" }
\* The first close/error event child k delivered: the one that settled its promise.
FirstEvent(k) == children[k].events[1]
ClosedFirst(k) == FirstEvent(k).type = "close"
ErroredFirst(k) == FirstEvent(k).type = "error"
SettledIndices == { k \in 1 .. Len(promises) : promises[k].status = "fulfilled" }

\* C1: the result list is in the order of the selected targets, in both
\* modes and for every completion order: the i-th result belongs to the i-th
\* selected target, and once the builds are over the list is as long as the
\* selection.
ResultOrder ==
  /\ Len(results) <= N
  /\ \A k \in 1 .. Len(results) : results[k].platform = selectedPlatforms[k]
  /\ BuildsRan => Len(results) = N

\* A parallel run of two targets whose second child finished first.
ResultOrderWitness ==
  /\ pc = "done"
  /\ parallel
  /\ N = 2
  /\ settleLog = << 2, 1 >>
  /\ Len(results) = 2

\* C2: once builds have run the script exits with status 0 iff no result
\* has success = false, and with status 1 otherwise.
ExitStatusIffNoFailure ==
  pc = "done" =>
    /\ exitCode \in { << 0 >>, << 1 >> }
    /\ exitCode = << 0 >> <=> \A k \in 1 .. Len(results) : results[k].success

\* A run that ends with one successful and one failed build.
ExitStatusWitness ==
  /\ pc = "done"
  /\ exitCode = << 1 >>
  /\ \E k \in 1 .. Len(results) : results[k].success
  /\ \E k \in 1 .. Len(results) : ~ results[k].success

\* C3: a child that closes with exit code 0 yields success = true and no
\* error field; a child that closes with a non-zero or null code, or that
\* emits a spawn error, yields success = false and a non-empty error.
OutcomeMapping ==
  \A k \in 1 .. Len(promises) :
    /\ IsSettled(promises[k]) <=> children[k].events # << >>
    /\ IsSettled(promises[k]) =>
         /\ promises[k].status = "fulfilled"
         /\ IF ClosedFirst(k) /\ FirstEvent(k).code = << 0 >>
              THEN /\ promises[k].value.success
                   /\ "error" \notin DOMAIN promises[k].value
              ELSE /\ ~ promises[k].value.success
                   /\ "error" \in DOMAIN promises[k].value
                   /\ promises[k].value.error # << >>

\* A verbose run with one child killed by a signal (code null) and one
\* child that could not be spawned.
OutcomeMappingWitness ==
  /\ pc = "done"
  /\ verbose
  /\ \E k \in 1 .. N : ClosedFirst(k) /\ FirstEvent(k).code = << >>
  /\ \E k \in 1 .. N : ErroredFirst(k)

\* C4: every selected target is spawned exactly once and has exactly one
\* result, also when its child emits 'error' and then 'close': the result is
\* the one of the first event, and a failed target is not spawned again.
ExactlyOnce ==
  /\ \A a, b \in 1 .. Len(spawnLog) : spawnLog[a].index = spawnLog[b].index => a = b
  /\ \A a \in 1 .. Len(spawnLog) : spawnLog[a].index \in 1 .. N
  /\ Len(results) <= Len(spawnLog)
  /\ BuildsRan => Len(spawnLog) = N /\ Len(results) = N
  /\ \A k \in 1 .. Len(results) : results[k] = promises[k].value
  /\ \A k \in SettledIndices :
       ErroredFirst(k) => promises[k].value.error = SpawnErrorMessage

\* A finished run in which one child emitted 'error' and then 'close'.
ExactlyOnceWitness ==
  /\ pc = "done"
  /\ \E k \in 1 .. N :
       /\ Len(children[k].events) = 2
       /\ ErroredFirst(k)
       /\ children[k].events[2].type = "close"

\* C5: in sequential mode the child of target i+1 is spawned only after the
\* result of target i is in the result list, at most one child is running at
\* any time, and a failed result does not keep the later targets from being
\* spawned.
SequentialOrder ==
  (~ parallel) =>
    /\ Len(spawnLog) <= Len(results) + 1
    /\ \A a \in 1 .. Len(spawnLog) : spawnLog[a].index = a
    /\ Cardinality({ k \in 1 .. Len(children) : children[k].state = "spawned" }) <= 1
    /\ BuildsRan => Len(spawnLog) = N

\* A sequential run of two targets whose first build failed.
SequentialOrderWitness ==
  /\ pc = "done"
  /\ ~ parallel
  /\ N = 2
  /\ ~ results[1].success
  /\ Len(spawnLog) = 2

\* C6: in parallel mode every child is spawned before the script handles an
\* event of any of them, the summary is reached only after every child has
\* produced its result, and the result list is empty until then.
ParallelAllOrNothing ==
  parallel =>
    /\ pc = "map" => \A k \in 1 .. Len(promises) : ~ IsSettled(promises[k])
    /\ pc = "awaitAll" => Len(spawnLog) = N
    /\ pc \in { "map", "awaitAll" } => results = << >>
    /\ BuildsRan => Len(promises) = N /\ AllFulfilled(promises)
    /\ results # << >> => AllFulfilled(promises) /\ Len(results) = N

\* The script waits in Promise.all while one child has finished and another
\* has not.
ParallelAllOrNothingWitness ==
  /\ parallel
  /\ pc = "awaitAll"
  /\ \E k \in 1 .. N : IsSettled(promises[k])
  /\ \E k \in 1 .. N : ~ IsSettled(promises[k])
  /\ results = << >>

\* C7: a failed build never rejects the promise of buildPlatform and never
\* makes main throw, and every target's result is decided by its own child
\* alone, whatever the other children did.
FailuresAreData ==
  /\ pc # "fatal"
  /\ \A k \in 1 .. Len(promises) : promises[k].status # "rejected"
  /\ BuildsRan =>
       \A k \in 1 .. N :
         /\ results[k].platform = selectedPlatforms[k]
         /\ results[k].success <=> (ClosedFirst(k) /\ FirstEvent(k).code = << 0 >>)

\* A finished run, sequential or parallel, in which the first target failed
\* on a spawn error and the second one succeeded.
FailuresAreDataWitness ==
  /\ pc = "done"
  /\ N = 2
  /\ ErroredFirst(1)
  /\ ~ results[1].success
  /\ results[2].success

\* C10: on success outputPath is target/<triple>/<mode>/ for a target with a
\* toolchain triple and target/<mode>/ for one without, whatever the other
\* options are; a failed result has no outputPath.
OutputPathRule ==
  \A k \in SettledIndices :
    LET r == promises[k].value
        p == selectedPlatforms[k]
    IN IF r.success
         THEN /\ "outputPath" \in DOMAIN r
              /\ r.outputPath = IF "target" \in DOMAIN p
                                  THEN << "target/", p.target, "/", buildMode, "/" >>
                                  ELSE << "target/", buildMode, "/" >>
         ELSE "outputPath" \notin DOMAIN r

\* A debug run in which the native target (no triple) succeeded and a
\* target with a triple failed.
OutputPathWitness ==
  /\ pc = "done"
  /\ buildMode = "debug"
  /\ \E k \in 1 .. N : results[k].success /\ "target" \notin DOMAIN selectedPlatforms[k]
  /\ \E k \in 1 .. N : ~ results[k].success /\ "target" \in DOMAIN selectedPlatforms[k]

\* A registry target whose required tool was not detected.
Unbuildable(p) ==
  \/ RequiresCross(p) /\ ~hasCross
  \/ RequiresDocker(p) /\ ~hasDocker

\* C11: once the prerequisites are probed, the platforms offered are exactly
\* the registry platforms that need no undetected tool, in registry order,
\* whatever the two probes found; a platform that needs an undetected tool is
\* neither selected nor spawned.
TargetFiltering ==
  pc # "checkPrerequisites" =>
    /\ availablePlatforms = SelectSeq(PLATFORMS, LAMBDA p : ~ Unbuildable(p))
    /\ \A k \in 1 .. Len(selectedPlatforms) : ~ Unbuildable(selectedPlatforms[k])
    /\ \A k \in 1 .. Len(spawnLog) :
         \E j \in 1 .. Len(availablePlatforms) :
           /\ availablePlatforms[j].id = spawnLog[k].platform
           /\ ~ Unbuildable(availablePlatforms[j])

\* The cross helper was found and the container backend was not: the android
\* targets were left out, and a build of a cross target was spawned.
TargetFilteringWitness ==
  /\ pc = "done"
  /\ hasCross /\ ~hasDocker
  /\ Len(availablePlatforms) < Len(PLATFORMS)
  /\ \E k \in 1 .. Len(spawnLog) : \E j \in 1 .. Len(availablePlatforms) :
       /\ availablePlatforms[j].id = spawnLog[k].platform
       /\ RequiresCross(availablePlatforms[j])

(***************************************************************************)
(* RegistrySpec: main of the build script run over registries other than   *)
(* the shipped one.  Every shipped registry has the requirement-free       *)
(* 'native' entry, so its filtered list is never empty; the registries     *)
(* here are the sub-arrays of PLATFORMS made of one cross target and one   *)
(* container target, the empty array included.                             *)
(***************************************************************************)
RequirementBearing == { "windows-x64-gnu", "android-arm64" }
Registries ==
  { SelectSeq(PLATFORMS, LAMBDA p : p.id \in S) : S \in SUBSET RequirementBearing }

RegistryInit ==
  /\ MainStart
  /\ registry \in Registries

RegistrySpec == RegistryInit /\ [][Next]_vars

\* C12: when the filtered list is empty the script has exited with status 1
\* at once: no prompt was shown or answered, no child was spawned, and
\* nothing more happens; and it exits this way only for an empty list.
NothingBuildable ==
  /\ (pc # "checkPrerequisites" /\ Len(availablePlatforms) = 0) =>
       /\ pc = "noTargets"
       /\ exitCode = << 1 >>
       /\ selectedPlatforms = << >>
       /\ buildMode = "unset" /\ features = << >>
       /\ spawnLog = << >> /\ children = << >> /\ promises = << >>
       /\ ~ ENABLED Next
  /\ pc = "noTargets" => Len(availablePlatforms) = 0

\* A registry of container targets only, on a machine that has the cross
\* helper and no container backend.
NothingBuildableWitness ==
  /\ pc = "noTargets"
  /\ Len(registry) > 0
  /\ hasCross /\ ~hasDocker
  /\ exitCode = << 1 >>

(***************************************************************************)
(* PairSpec: buildPlatform called twice for one platform with options that *)
(* differ only in verbose, and one child behaviour fed to both calls.      *)
(* children[1], promises[1] belong to the verbose call and children[2],    *)
(* promises[2] to the quiet call.  A chunk the child writes reaches the    *)
(* 'data' handlers of the quiet call only: the verbose call spawns with    *)
(* stdio 'inherit' and registers none (182, 189).                          *)
(***************************************************************************)
OptionsWithVerbose(b) == [BuildOptions EXCEPT !.verbose = b]

PairInit ==
  /\ pc = "pairStart"
  /\ probes = << >>
  /\ shell = << >>
  /\ hasCross = TRUE
  /\ hasDocker = TRUE
  /\ availablePlatforms = PLATFORMS
  /\ \E k \in 1 .. Len(PLATFORMS) : selectedPlatforms = << PLATFORMS[k] >>
  /\ buildMode \in { "release", "debug" }
  /\ features \in FeatureLists
  /\ parallel \in BOOLEAN
  /\ verbose = FALSE
  /\ i = 1
  /\ children = << >>
  /\ promises = << >>
  /\ results = << >>
  /\ successful = << >>
  /\ failed = << >>
  /\ exitCode = << >>
  /\ spawnLog = << >>
  /\ settleLog = << >>
  /\ registry = PLATFORMS
  /\ WorkflowIdle

pairFrame == << hasCross, hasDocker, availablePlatforms, selectedPlatforms, promptVars,
                i, results, successful, failed, exitCode, spawnLog, settleLog >>

\* The duration the quiet call measures when the verbose call measures dv:
\* the same, or another one.
PairElapsed(dv) == Elapsed \cup { dv + 1 }

\* Both calls run their synchronous part (171-198).
PairSpawn ==
  /\ UNCHANGED extVars
  /\ pc = "pairStart"
  /\ children' = << NewChild(OptionsWithVerbose(TRUE)), NewChild(OptionsWithVerbose(FALSE)) >>
  /\ promises' = << Pending, Pending >>
  /\ pc' = "pairAwait"
  /\ UNCHANGED pairFrame

\* The child writes a chunk to stdout.
PairStdout ==
  /\ UNCHANGED extVars
  /\ pc = "pairAwait"
  /\ children[2].state = "spawned"
  /\ Len(children[2].output) < MaxChunks
  /\ children' = [children EXCEPT ![2] = OnStdoutData(@, StdoutChunk)]
  /\ UNCHANGED << pc, promises >>
  /\ UNCHANGED pairFrame

\* The child writes a chunk to stderr.
PairStderr ==
  /\ UNCHANGED extVars
  /\ pc = "pairAwait"
  /\ children[2].state = "spawned"
  /\ Len(children[2].errorOutput) < MaxChunks
  /\ children' = [children EXCEPT ![2] = OnStderrData(@, StderrChunk)]
  /\ UNCHANGED << pc, promises >>
  /\ UNCHANGED pairFrame

\* Both calls after their 'close' handlers ran with the same exit code.
PairHandleClose(code, dv, dq) ==
  LET hv == OnClose(children[1], promises[1], selectedPlatforms[1],
                    OptionsWithVerbose(TRUE), code, dv)
      hq == OnClose(children[2], promises[2], selectedPlatforms[1],
                    OptionsWithVerbose(FALSE), code, dq)
  IN /\ children' = << hv.child, hq.child >>
     /\ promises' = << hv.promise, hq.promise >>

\* The child exits: 'close' with the same code in both calls.
PairClose ==
  /\ UNCHANGED extVars
  /\ pc = "pairAwait"
  /\ children[2].state = "spawned"
  /\ \E code \in ExitCodes, dv \in Elapsed : \E dq \in PairElapsed(dv) :
       PairHandleClose(code, dv, dq)
  /\ UNCHANGED pc
  /\ UNCHANGED pairFrame

\* The child cannot be spawned: 'error' in both calls.
PairError ==
  /\ UNCHANGED extVars
  /\ pc = "pairAwait"
  /\ children[2].state = "spawned"
  /\ children[2].output = << >> /\ children[2].errorOutput = << >>
  /\ \E dv \in Elapsed : \E dq \in PairElapsed(dv) :
       LET hv == OnError(children[1], promises[1], selectedPlatforms[1], SpawnErrorMessage, dv)
           hq == OnError(children[2], promises[2], selectedPlatforms[1], SpawnErrorMessage, dq)
       IN /\ children' = << hv.child, hq.child >>
          /\ promises' = << hv.promise, hq.promise >>
  /\ UNCHANGED pc
  /\ UNCHANGED pairFrame

\* The 'close' event that follows the spawn error.
PairCloseAfterError ==
  /\ UNCHANGED extVars
  /\ pc = "pairAwait"
  /\ children[2].state = "errored"
  /\ \E dv \in Elapsed : \E dq \in PairElapsed(dv) : PairHandleClose(SpawnFailCode, dv, dq)
  /\ UNCHANGED pc
  /\ UNCHANGED pairFrame

PairNext ==
  \/ PairSpawn
  \/ PairStdout
  \/ PairStderr
  \/ PairClose
  \/ PairError
  \/ PairCloseAfterError

PairSpec == PairInit /\ [][PairNext]_vars

(***************************************************************************)
(* Verbose against quiet, checked under PairSpec.                          *)
(***************************************************************************)
BothSettled ==
  /\ pc = "pairAwait"
  /\ Len(promises) = 2
  /\ promises[1].status = "fulfilled"
  /\ promises[2].status = "fulfilled"

\* What the first non-empty of stderr buffer, stdout buffer and the generic
\* text is for child k.
FirstNonEmptyError(k) ==
  IF children[k].errorOutput # << >> THEN children[k].errorOutput
  ELSE IF children[k].output # << >> THEN children[k].output
  ELSE << "Build failed with exit code ", CodeText(FirstEvent(k).code) >>

\* The quiet calls that settled on a 'close' with a non-zero or null code.
QuietFailures ==
  { k \in SettledIndices :
      children[k].stdio = "pipe" /\ ClosedFirst(k) /\ FirstEvent(k).code # << 0 >> }

\* success, outputPath and the presence of error agree in the two results.
SameOutcome(v, q) ==
  /\ DOMAIN v = DOMAIN q
  /\ v.platform = q.platform
  /\ v.success = q.success
  /\ "outputPath" \in DOMAIN v => v.outputPath = q.outputPath

\* C8 as stated: for the same target, options and child behaviour the
\* verbose and the quiet result agree in every field but duration.
VerboseQuietIdentical ==
  BothSettled =>
    LET v == promises[1].value
        q == promises[2].value
    IN /\ SameOutcome(v, q)
       /\ "error" \in DOMAIN v => v.error = q.error

\* C8 as amended: the two results agree in success, in outputPath and in
\* whether they carry an error; the error text is the same when the child
\* could not be spawned or wrote nothing; when the child wrote output and
\* exited non-zero, the quiet error is the captured output (stderr if not
\* empty, else stdout) and the verbose error is the text
\* 'Build failed with exit code <code>'.
VerboseQuietSameOutcome ==
  BothSettled =>
    LET v == promises[1].value
        q == promises[2].value
        wroteNothing == children[2].output = << >> /\ children[2].errorOutput = << >>
    IN /\ SameOutcome(v, q)
       /\ "error" \in DOMAIN v =>
            IF ErroredFirst(2) \/ wroteNothing
              THEN v.error = q.error
              ELSE /\ v.error = << "Build failed with exit code ", CodeText(FirstEvent(2).code) >>
                   /\ q.error = FirstNonEmptyError(2)
                   /\ v.error # q.error

\* The child wrote to stderr and exited non-zero, and the two calls measured
\* different durations.
VerboseQuietWitness ==
  /\ BothSettled
  /\ ~ promises[1].value.success
  /\ ClosedFirst(2)
  /\ children[2].errorOutput # << >>
  /\ promises[1].value.duration # promises[2].value.duration

\* C9 as stated: in quiet mode the error of a non-zero exit is the captured
\* stderr followed by the captured stdout (read for a child that wrote
\* something, so that the generic text is not in question).
QuietErrorIsStderrThenStdout ==
  \A k \in QuietFailures :
    (children[k].errorOutput # << >> \/ children[k].output # << >>) =>
      promises[k].value.error = children[k].errorOutput \o children[k].output

\* C9 as amended: in quiet mode the error of a non-zero exit is the captured
\* stderr if it is not empty, else the captured stdout if it is not empty,
\* else the text 'Build failed with exit code <code>'; on exit code 0 the
\* result has no field but platform, success, duration and outputPath.
QuietErrorFirstNonEmpty ==
  /\ \A k \in QuietFailures : promises[k].value.error = FirstNonEmptyError(k)
  /\ \A k \in SettledIndices :
       (ClosedFirst(k) /\ FirstEvent(k).code = << 0 >>) =>
         DOMAIN promises[k].value = { "platform", "success", "duration", "outputPath" }

\* A quiet child that wrote to both streams and then exited non-zero.
QuietErrorWitness ==
  \E k \in QuietFailures :
    /\ children[k].errorOutput # << >>
    /\ children[k].output # << >>

(***************************************************************************)
(* Version handling of the orchestrator (scripts/workflow.ts), of the      *)
(* commit script and of the legacy release script.                         *)
(*                                                                         *)
(* A string is a sequence of one-character strings.  A JavaScript value    *)
(* that a version component can hold is a record: a number, NaN or         *)
(* undefined (the type annotations do not exist at run time).              *)
(***************************************************************************)
Digits == << "0", "1", "2", "3", "4", "5", "6", "7", "8", "9" >>
IsDigit(c) == \E d \in 1 .. Len(Digits) : Digits[d] = c
DigitValue(c) == (CHOOSE d \in 1 .. Len(Digits) : Digits[d] = c) - 1
AllDigits(s) == \A k \in 1 .. Len(s) : IsDigit(s[k])

Num(n) == [kind |-> "number", value |-> n]
NaN == [kind |-> "NaN", value |-> 0]
Undefined == [kind |-> "undefined", value |-> 0]

\* isNaN(x): Number(undefined) is NaN.
isNaN(x) == x.kind # "number"

\* x + 1, x += 1.
PlusOne(x) == IF x.kind = "number" THEN Num(x.value + 1) ELSE NaN

\* The decimal digits of a natural number.
RECURSIVE DecimalDigits(_)
DecimalDigits(n) ==
  IF n < Len(Digits)
    THEN << Digits[n + 1] >>
    ELSE Append(DecimalDigits(n \div Len(Digits)), Digits[(n % Len(Digits)) + 1])

\* `${x}` in a template literal.
StringOf(x) ==
  CASE x.kind = "number" ->
         IF x.value < 0 THEN << "-" >> \o DecimalDigits(- x.value)
                        ELSE DecimalDigits(x.value)
    [] x.kind = "NaN" -> << "N", "a", "N" >>
    [] OTHER -> << "u", "n", "d", "e", "f", "i", "n", "e", "d" >>

\* str.split(sep) for a one-character separator.
RECURSIVE Split(_, _)
Split(str, sep) ==
  IF \A k \in 1 .. Len(str) : str[k] # sep
    THEN << str >>
    ELSE LET k == CHOOSE n \in 1 .. Len(str) :
                    str[n] = sep /\ \A j \in 1 .. n - 1 : str[j] # sep
         IN << SubSeq(str, 1, k - 1) >> \o Split(SubSeq(str, k + 1, Len(str)), sep)

RECURSIVE DecimalValue(_)
DecimalValue(s) ==
  IF s = << >>
    THEN 0
    ELSE Len(Digits) * DecimalValue(SubSeq(s, 1, Len(s) - 1)) + DigitValue(s[Len(s)])

\* Number(str) for a string of digits, '-' and letters other than e and x
\* (no white space, no '.', no exponent, no radix prefix): the empty string
\* is 0, an optionally negated digit string is its value, the rest is NaN.
Number(str) ==
  IF str = << >> THEN Num(0)
  ELSE IF AllDigits(str) THEN Num(DecimalValue(str))
  ELSE IF str[1] = "-" /\ Len(str) > 1 /\ AllDigits(Tail(str))
    THEN Num(- DecimalValue(Tail(str)))
  ELSE NaN

\* array.map(Number)
MapNumber(parts) == [k \in 1 .. Len(parts) |-> Number(parts[k])]

\* array[k - 1], and the k-th name of an array destructuring.
At(array, k) == IF k <= Len(array) THEN array[k] ELSE Undefined

\* How a call ends.
Return(v) == [threw |-> FALSE, value |-> v]
Throw(m) == [threw |-> TRUE, message |-> m]

\* workflow.ts, parseVersion (39-45).
parseVersion(versionStr) ==
  LET parts == MapNumber(Split(versionStr, "."))
      major == At(parts, 1)
      minor == At(parts, 2)
      patch == At(parts, 3)
  IN IF isNaN(major) \/ isNaN(minor) \/ isNaN(patch)
       THEN Throw(<< "Invalid version format: " >> \o versionStr)
       ELSE Return([major |-> major, minor |-> minor, patch |-> patch])

\* workflow.ts, formatVersion (47-49).
formatVersion(v) ==
  StringOf(v.major) \o << "." >> \o StringOf(v.minor) \o << "." >> \o StringOf(v.patch)

\* Faulty variant of bumpVersion: a minor bump keeps the patch number.
bumpVersionKeepsPatch(current, type) ==
  CASE type = "major" -> [major |-> PlusOne(current.major), minor |-> Num(0), patch |-> Num(0)]
    [] type = "minor" -> [current EXCEPT !.minor = PlusOne(current.minor)]
    [] type = "patch" -> [current EXCEPT !.patch = PlusOne(current.patch)]

\* workflow.ts, bumpVersion (79-88).
bumpVersion(current, type) ==
  CASE type = "major" ->
         [major |-> PlusOne(current.major), minor |-> Num(0), patch |-> Num(0)]
    [] type = "minor" ->
         [major |-> current.major, minor |-> PlusOne(current.minor), patch |-> Num(0)]
    [] type = "patch" ->
         [major |-> current.major, minor |-> current.minor,
          patch |-> PlusOne(current.patch)]

\* Commit script, parseVersion (part_002 96-99): no check at all.
CommitParseVersion(version) ==
  LET parts == MapNumber(Split(version, "."))
  IN [major |-> At(parts, 1), minor |-> At(parts, 2), patch |-> At(parts, 3)]

\* Commit script, bumpVersion (part_002 101-112): from string to string.
CommitBumpVersion(version, type) ==
  LET v == CommitParseVersion(version)
  IN CASE type = "major" ->
            StringOf(PlusOne(v.major)) \o << ".", "0", ".", "0" >>
       [] type = "minor" ->
            StringOf(v.major) \o << "." >> \o StringOf(PlusOne(v.minor)) \o << ".", "0" >>
       [] type = "patch" ->
            StringOf(v.major) \o << "." >> \o StringOf(v.minor) \o << "." >>
              \o StringOf(PlusOne(v.patch))

\* Legacy release script, formatVersion (part_002 1063-1065).
LegacyFormatVersion(v) ==
  StringOf(v.major) \o << "." >> \o StringOf(v.minor) \o << "." >> \o StringOf(v.patch)

\* Legacy release script, the switch of main (part_002 1295-1310) on a copy
\* of currentVersion.
LegacyBump(version, bump) ==
  CASE bump = "major" ->
         [[[version EXCEPT !.major = PlusOne(version.major)]
             EXCEPT !.minor = Num(0)] EXCEPT !.patch = Num(0)]
    [] bump = "minor" ->
         [[version EXCEPT !.minor = PlusOne(version.minor)]
             EXCEPT !.patch = Num(0)]
    [] bump = "patch" ->
         [version EXCEPT !.patch = PlusOne(version.patch)]

BumpTypes == { "major", "minor", "patch" }

(***************************************************************************)
(* BumpSpec: the three bump implementations applied to one version of      *)
(* natural numbers, and once more to the result.                           *)
(***************************************************************************)
Components == { Num(n) : n \in 0 .. MaxComponent }
Versions == [major : Components, minor : Components, patch : Components]

\* What the three scripts make of version v and bump type.
BumpResult(v, type) ==
  [from |-> v,
   once |-> bumpVersion(v, type),
   workflow |-> formatVersion(bumpVersion(v, type)),
   commit |-> CommitBumpVersion(formatVersion(v), type),
   legacy |-> LegacyFormatVersion(LegacyBump(v, type))]

bumpFrame == << probes, shell, hasCross, hasDocker, availablePlatforms, selectedPlatforms, promptVars,
               buildVars, summaryVars, exitCode, registry, quicheToml, readResults,
               workflowVars, textVars, scriptVars >>

BumpInit ==
  /\ pc = "bumpStart"
  /\ exitCode = << >>
  /\ BuildIdle
  /\ registry = PLATFORMS
  /\ currentParsed \in Versions
  /\ versionAction = "unset"
  /\ bumpResults = << >>
  /\ quicheToml = << >>
  /\ readResults = << >>
  /\ WorkflowRunIdle
  /\ TextIdle
  /\ ScriptIdle

ApplyBump ==
  /\ pc = "bumpStart"
  /\ \E type \in BumpTypes :
       /\ versionAction' = type
       /\ bumpResults' = << BumpResult(currentParsed, type) >>
  /\ pc' = "bumpOnce"
  /\ UNCHANGED << currentParsed, bumpFrame >>

ApplyBumpAgain ==
  /\ pc = "bumpOnce"
  /\ bumpResults' = Append(bumpResults, BumpResult(bumpResults[1].once, versionAction))
  /\ pc' = "bumpTwice"
  /\ UNCHANGED << currentParsed, versionAction, bumpFrame >>

BumpNext ==
  \/ ApplyBump
  \/ ApplyBumpAgain

BumpSpec == BumpInit /\ [][BumpNext]_vars

\* (major, minor, patch) of v below that of w in the lexicographic order.
LexLess(v, w) ==
  \/ v.major.value < w.major.value
  \/ v.major.value = w.major.value /\ v.minor.value < w.minor.value
  \/ /\ v.major.value = w.major.value
     /\ v.minor.value = w.minor.value
     /\ v.patch.value < w.patch.value

\* C13: a major bump gives {major+1, 0, 0}, a minor bump {major, minor+1, 0},
\* a patch bump {major, minor, patch+1}; the result is above the version in
\* the lexicographic order, bumping the result again gives yet another
\* version, and the workflow script, the commit script and the legacy
\* release script produce the same version string.
BumpLaws ==
  /\ \A k \in 1 .. Len(bumpResults) :
       LET r == bumpResults[k]
           v == r.from
       IN /\ versionAction = "major" =>
               r.once = [major |-> Num(v.major.value + 1), minor |-> Num(0),
                         patch |-> Num(0)]
          /\ versionAction = "minor" =>
               r.once = [major |-> v.major, minor |-> Num(v.minor.value + 1),
                         patch |-> Num(0)]
          /\ versionAction = "patch" =>
               r.once = [major |-> v.major, minor |-> v.minor,
                         patch |-> Num(v.patch.value + 1)]
          /\ LexLess(v, r.once)
          /\ r.workflow = r.commit
          /\ r.workflow = r.legacy
  /\ Len(bumpResults) = 2 => bumpResults[2].once # bumpResults[1].once

\* 1.9.1 bumped by minor to 1.10.0, and that bumped again.
BumpLawsWitness ==
  /\ pc = "bumpTwice"
  /\ versionAction = "minor"
  /\ bumpResults[1].from = [major |-> Num(1), minor |-> Num(9), patch |-> Num(1)]
  /\ bumpResults[1].commit = << "1", ".", "1", "0", ".", "0" >>

(***************************************************************************)
(* Manifests.  A Cargo.toml is a sequence of lines; a line is a key and    *)
(* the text between the quotes of its value.  `version = "..."` at the     *)
(* start of a line has key "version"; the workspace manifest's             *)
(* `quiche = { version = "...", path = ... }` has key "quiche".            *)
(***************************************************************************)
NameLine == [key |-> "name", value |-> << "q", "u", "i", "c", "h", "e" >>]
VersionLine(v) == [key |-> "version", value |-> v]
QuicheLine(v) == [key |-> "quiche", value |-> v]
MembersLine == [key |-> "members", value |-> << "q", "u", "i", "c", "h", "e" >>]

\* The first line a regular expression /^<key>\s*=...\s*"([^"]+)"/m matches:
\* the first line with that key whose quoted text is not empty; 0 if none.
FirstMatch(content, key) ==
  IF \E k \in 1 .. Len(content) : content[k].key = key /\ content[k].value # << >>
    THEN CHOOSE k \in 1 .. Len(content) :
           /\ content[k].key = key /\ content[k].value # << >>
           /\ \A j \in 1 .. k - 1 : ~ (content[j].key = key /\ content[j].value # << >>)
    ELSE 0

\* content.replace(/^(<key>...")[^"]+(")/m, `$1${newVersion}$2`): the first
\* match only, and the content as it is when nothing matches.
ReplaceFirst(content, key, replacement) ==
  IF FirstMatch(content, key) = 0
    THEN content
    ELSE [content EXCEPT ![FirstMatch(content, key)].value = replacement]

DefaultVersion == << "1", ".", "0", ".", "0" >>

\* workflow.ts, getCurrentVersion (51-55), on the content readFileSync gave.
getCurrentVersion(cargoToml) ==
  IF FirstMatch(cargoToml, "version") # 0
    THEN cargoToml[FirstMatch(cargoToml, "version")].value
    ELSE DefaultVersion

\* Legacy release script, parseVersion (part_002 1054-1060).
LegacyParseVersion(version) ==
  LET parts == MapNumber(Split(version, "."))
  IN IF Len(parts) # 3 \/ \E k \in 1 .. Len(parts) : isNaN(parts[k])
       THEN Throw(<< "invalid version format: " >> \o version)
       ELSE Return([major |-> parts[1], minor |-> parts[2], patch |-> parts[3]])

\* process.exit(code) after console.error(message).
Exit(code, message) == [threw |-> FALSE, exit |-> code, message |-> message]

\* Legacy release script, getVersion (part_002 1068-1081).
getVersion(content) ==
  IF FirstMatch(content, "version") = 0
    THEN Exit(1, "version not found in Cargo.toml")
    ELSE LET parsed == LegacyParseVersion(content[FirstMatch(content, "version")].value)
         IN IF parsed.threw
              THEN Exit(1, "failed to parse version from Cargo.toml")
              ELSE parsed

\* Version texts: up to MaxParts parts joined by dots, a part being empty,
\* a digit string, a negated digit string or a word.
VersionParts ==
  { << >>, << "1" >>, << "9" >>, << "1", "0" >>, << "-", "1" >>, << "v", "1" >> }

RECURSIVE JoinDots(_)
JoinDots(parts) ==
  IF Len(parts) = 1
    THEN parts[1]
    ELSE parts[1] \o << "." >> \o JoinDots(Tail(parts))

VersionTexts ==
  { JoinDots(parts) : parts \in UNION { [1 .. n -> VersionParts] : n \in 1 .. MaxParts } }

\* quiche/Cargo.toml with no version line, or with one of each text.
Manifests ==
  { << NameLine >> } \cup { << NameLine, VersionLine(v) >> : v \in VersionTexts }

(***************************************************************************)
(* ReadSpec: the version readers of the orchestrator and of the legacy     *)
(* release script applied to one manifest.                                 *)
(***************************************************************************)
readFrame == << probes, shell, hasCross, hasDocker, availablePlatforms, selectedPlatforms, promptVars,
               buildVars, summaryVars, exitCode, registry, currentParsed,
               versionAction, bumpResults, workflowVars, textVars, scriptVars >>

ReadInit ==
  /\ pc = "readStart"
  /\ exitCode = << >>
  /\ BuildIdle
  /\ registry = PLATFORMS
  /\ currentParsed = << >>
  /\ versionAction = "unset"
  /\ bumpResults = << >>
  /\ quicheToml \in Manifests
  /\ readResults = [workflow |-> << >>, legacy |-> << >>]
  /\ WorkflowRunIdle
  /\ TextIdle
  /\ ScriptIdle

\* workflow.ts 170-171.
WorkflowRead ==
  /\ pc = "readStart"
  /\ readResults.workflow = << >>
  /\ readResults' =
       [readResults EXCEPT !.workflow = << parseVersion(getCurrentVersion(quicheToml)) >>]
  /\ UNCHANGED << pc, quicheToml, readFrame >>

\* part_002 1274.
LegacyRead ==
  /\ pc = "readStart"
  /\ readResults.legacy = << >>
  /\ readResults' = [readResults EXCEPT !.legacy = << getVersion(quicheToml) >>]
  /\ UNCHANGED << pc, quicheToml, readFrame >>

ReadNext ==
  \/ WorkflowRead
  \/ LegacyRead

ReadSpec == ReadInit /\ [][ReadNext]_vars

\* A text made of exactly three non-empty digit strings separated by dots.
WellFormed(text) ==
  /\ Len(Split(text, ".")) = 3
  /\ \A k \in 1 .. 3 : Split(text, ".")[k] # << >> /\ AllDigits(Split(text, ".")[k])

\* The read ended with a Version value.
Yields(result) == "value" \in DOMAIN result
ReadsDone == << readResults.workflow, readResults.legacy >>
HasVersionLine == \E k \in 1 .. Len(quicheToml) : quicheToml[k].key = "version"

\* C18: a read of a manifest without a version line fails, and a read of a
\* version that is not three non-negative integers separated by dots (too
\* few or too many parts, an empty, negative or non-integer part) fails;
\* neither yields a Version value.
VersionReadErrors ==
  \A n \in 1 .. 2 : \A k \in 1 .. Len(ReadsDone[n]) :
    /\ ~ HasVersionLine => ~ Yields(ReadsDone[n][k])
    /\ (HasVersionLine /\ ~ WellFormed(quicheToml[2].value)) => ~ Yields(ReadsDone[n][k])

(***************************************************************************)
(* WorkflowSpec: one run of the orchestrator (scripts/workflow.ts, main).  *)
(* pc is the phase main is in; execSync and the fs calls block, so nothing *)
(* else runs while main does.                                              *)
(***************************************************************************)
workflowFrame == << probes, shell, hasCross, hasDocker, availablePlatforms, selectedPlatforms,
                   promptVars, buildVars, summaryVars, registry, bumpResults,
                   readResults, textVars, scriptVars >>

\* The workspace Cargo.toml that names the version of quiche/Cargo.toml.
WorkspaceFor(cargoToml) == << MembersLine, QuicheLine(getCurrentVersion(cargoToml)) >>

\* The manifests main is run on: without a version line, with a version of
\* at most three parts, or with one that has a fourth part.
WorkflowManifests ==
  { m \in Manifests :
      \/ Len(m) = 1
      \/ Len(Split(m[2].value, ".")) <= 3
      \/ m[2].value = << "1", ".", "9", ".", "1", ".", "1" >> }

WorkflowInit ==
  /\ pc = "checkGit"
  /\ exitCode = << >>
  /\ BuildIdle
  /\ registry = PLATFORMS
  /\ bumpResults = << >>
  /\ readResults = << >>
  /\ quicheToml \in WorkflowManifests
  /\ workspaceToml = WorkspaceFor(quicheToml)
  /\ currentVersion = << >>
  /\ currentParsed = << >>
  /\ versionAction = "unset"
  /\ newVersion = << >>
  /\ versionChanged = FALSE
  /\ buildRan = FALSE
  /\ effects = << >>
  /\ releasePrompt = << >>
  /\ dialog = << >>
  /\ TextIdle
  /\ ScriptIdle

\* cancel(...); process.exit(code): main stops in phase `at`.
WorkflowExit(at, code) ==
  /\ pc' = at
  /\ exitCode' = << code >>

\* What is shown to the operator and what they answer, as kept in dialog.
GitStatus(tree, clean) == [kind |-> "gitStatus", tree |-> tree, clean |-> clean]
Asked(kind, message, answer) == [kind |-> kind, message |-> message, answer |-> answer]
\* confirm({ message, initialValue }) and its answer.
Confirm(message, initialValue, answer) ==
  [kind |-> "confirm", message |-> message, initialValue |-> initialValue,
   answer |-> answer]
PhaseHeader(name) == [kind |-> "phase", name |-> name]
LogError(text) == [kind |-> "error", text |-> text]
CancelMessage(text) == [kind |-> "cancel", text |-> text]
Answers == { "cancel", "no", "yes" }

\* The working tree as it is when git status runs.
GitTrees == { "clean", "dirty" }
\* checkGitClean (90-93) over exec (24-37): the output of git status
\* --porcelain is empty for a clean tree, and the silent exec returns '' for
\* a command that failed.
checkGitClean(tree, commandFailed) == commandFailed \/ tree = "clean"

\* Lines 149-164: git status, and 'Continue anyway?' when it printed changes.
CheckGit ==
  /\ pc = "checkGit"
  /\ \E tree \in GitTrees, commandFailed \in BOOLEAN, proceedDirty \in Answers :
       LET clean == checkGitClean(tree, commandFailed)
       IN IF clean
            THEN /\ dialog' = Append(dialog, GitStatus(tree, clean))
                 /\ pc' = "readVersion"
                 /\ UNCHANGED exitCode
            ELSE IF proceedDirty = "yes"
              THEN /\ dialog' = dialog \o << GitStatus(tree, clean),
                                             Confirm(<< "Continue anyway?" >>, FALSE, proceedDirty) >>
                   /\ pc' = "readVersion"
                   /\ UNCHANGED exitCode
              ELSE /\ dialog' = dialog \o
                        << GitStatus(tree, clean),
                           Confirm(<< "Continue anyway?" >>, FALSE, proceedDirty),
                           CancelMessage(<< "Workflow cancelled. Commit or stash your changes first." >>) >>
                   /\ WorkflowExit("cancelled", 0)
  /\ UNCHANGED << quicheToml, currentParsed, versionAction, workspaceToml, currentVersion,
                  newVersion, versionChanged, buildRan, effects, releasePrompt,
                  workflowFrame >>

\* Lines 170-171; a throw rejects main's promise and main().catch (327-330)
\* exits with 1.
ReadVersion ==
  /\ pc = "readVersion"
  /\ LET version == getCurrentVersion(quicheToml)
         parsed == parseVersion(version)
     IN /\ currentVersion' = version
        /\ IF parsed.threw
             THEN /\ WorkflowExit("fatal", 1)
                  /\ UNCHANGED currentParsed
             ELSE /\ currentParsed' = parsed.value
                  /\ pc' = "selectVersion"
                  /\ UNCHANGED exitCode
  /\ UNCHANGED << quicheToml, versionAction, workspaceToml, newVersion, versionChanged,
                  buildRan, effects, releasePrompt, dialog, workflowFrame >>

VersionActions == { "skip", "patch", "minor", "major", "custom" }

\* Lines 179-219 up to the next prompt or the update.
SelectVersion ==
  /\ pc = "selectVersion"
  /\ \/ /\ WorkflowExit("cancelled", 0)
        /\ dialog' = dialog \o << Asked("select", << "Version update:" >>, "cancel"),
                                  CancelMessage(<< "Workflow cancelled." >>) >>
        /\ UNCHANGED << versionAction, newVersion >>
     \/ \E action \in VersionActions :
          /\ versionAction' = action
          /\ dialog' = Append(dialog, Asked("select", << "Version update:" >>, action))
          /\ newVersion' =
               IF action \in BumpTypes
                 THEN formatVersion(bumpVersion(currentParsed, action))
                 ELSE currentVersion
          /\ pc' = CASE action = "skip" -> "build"
                     [] action = "custom" -> "enterVersion"
                     [] OTHER -> "updateVersion"
          /\ UNCHANGED exitCode
  /\ UNCHANGED << quicheToml, currentParsed, workspaceToml, currentVersion,
                  versionChanged, buildRan, effects, releasePrompt, workflowFrame >>

\* validate of the text prompt (203-207): /^\d+\.\d+\.\d+$/.
validate(value) ==
  LET parts == Split(value, ".")
  IN IF Len(parts) = 3 /\ \A k \in 1 .. Len(parts) : parts[k] # << >> /\ AllDigits(parts[k])
       THEN << >>
       ELSE << "Version must be in format: major.minor.patch" >>

\* What the operator types at 'Enter version:'.
TypedVersions ==
  { << "2", ".", "0", ".", "0" >>, << "2", ".", "0" >>, << "v", "2", ".", "0", ".", "0" >>,
    << "2", ".", "0", ".", "0", ".", "1" >>, << "-", "2", ".", "0", ".", "0" >> }

\* Lines 200-215: the prompt returns a text only when validate accepts it.
EnterVersion ==
  /\ pc = "enterVersion"
  /\ \/ /\ WorkflowExit("cancelled", 0)
        /\ dialog' = dialog \o << Asked("text", << "Enter version:" >>, "cancel"),
                                  CancelMessage(<< "Workflow cancelled." >>) >>
        /\ UNCHANGED newVersion
     \/ \E customVersion \in TypedVersions :
          IF validate(customVersion) = << >>
            THEN /\ newVersion' = customVersion
                 /\ dialog' = Append(dialog, Asked("text", << "Enter version:" >>,
                                                   customVersion))
                 /\ pc' = "updateVersion"
                 /\ UNCHANGED exitCode
            ELSE UNCHANGED << pc, exitCode, newVersion, dialog >>
  /\ UNCHANGED << quicheToml, currentParsed, versionAction, workspaceToml, currentVersion,
                  versionChanged, buildRan, effects, releasePrompt, workflowFrame >>

\* workflow.ts, updateQuicheVersion (57-65): the content written.
updateQuicheVersion(content, version) == ReplaceFirst(content, "version", version)
\* workflow.ts, updateWorkspaceVersion (67-77): the content written.
updateWorkspaceVersion(content, version) == ReplaceFirst(content, "quiche", version)

\* readFileSync / writeFileSync of one manifest: done, or thrown with the
\* file as it was.
WriteOutcomes == { "written", "failed" }
Write(path) == [kind |-> "write", path |-> path]

\* Faulty variant of UpdateVersion: a failed update is caught and main goes
\* on to the build phase.
UpdateVersionIgnoresFailure ==
  /\ pc = "updateVersion"
  /\ \E quiche \in WriteOutcomes, workspace \in WriteOutcomes :
       /\ quicheToml' = IF quiche = "written"
                          THEN updateQuicheVersion(quicheToml, newVersion)
                          ELSE quicheToml
       /\ workspaceToml' = IF quiche = "written" /\ workspace = "written"
                             THEN updateWorkspaceVersion(workspaceToml, newVersion)
                             ELSE workspaceToml
       /\ effects' = IF quiche = "failed" THEN effects
                     ELSE IF workspace = "failed"
                       THEN Append(effects, Write("quiche/Cargo.toml"))
                     ELSE effects \o << Write("quiche/Cargo.toml"), Write("Cargo.toml") >>
       /\ versionChanged' = (quiche = "written" /\ workspace = "written")
  /\ pc' = "build"
  /\ UNCHANGED << exitCode, currentParsed, versionAction, currentVersion, newVersion,
                  buildRan, releasePrompt, dialog, workflowFrame >>

\* Faulty variant of UpdateVersion: the bumped text is written with its
\* patch number dropped.
UpdateVersionDropsPatch ==
  /\ pc = "updateVersion"
  /\ quicheToml' = updateQuicheVersion(quicheToml, SubSeq(newVersion, 1, Len(newVersion) - 2))
  /\ workspaceToml' = updateWorkspaceVersion(workspaceToml, newVersion)
  /\ effects' = effects \o << Write("quiche/Cargo.toml"), Write("Cargo.toml") >>
  /\ versionChanged' = TRUE
  /\ pc' = "build"
  /\ UNCHANGED << exitCode, currentParsed, versionAction, currentVersion, newVersion,
                  buildRan, releasePrompt, dialog, workflowFrame >>

\* Lines 221-241: the two updates inside one try; the catch exits with 1.
UpdateVersion ==
  /\ pc = "updateVersion"
  /\ \E quiche \in WriteOutcomes :
       IF quiche = "failed"
         THEN /\ WorkflowExit("updateFailed", 1)
              /\ UNCHANGED << quicheToml, workspaceToml, effects, versionChanged >>
         ELSE /\ quicheToml' = updateQuicheVersion(quicheToml, newVersion)
              /\ \E workspace \in WriteOutcomes :
                   IF workspace = "failed"
                     THEN /\ WorkflowExit("updateFailed", 1)
                          /\ effects' = Append(effects, Write("quiche/Cargo.toml"))
                          /\ UNCHANGED << workspaceToml, versionChanged >>
                     ELSE /\ workspaceToml' = updateWorkspaceVersion(workspaceToml, newVersion)
                          /\ effects' = effects \o << Write("quiche/Cargo.toml"),
                                                      Write("Cargo.toml") >>
                          /\ versionChanged' = TRUE
                          /\ pc' = "build"
                          /\ UNCHANGED exitCode
  /\ UNCHANGED << currentParsed, versionAction, currentVersion, newVersion, buildRan,
                  releasePrompt, dialog, workflowFrame >>

\* runScript (95-132): 'Run <script>?' cancelled or declined, the npm script
\* run to completion, or failed and 'Continue with workflow despite error?'
\* declined, cancelled or accepted.
RunOutcomes ==
  { "cancel", "declined", "completed", "failedStop", "failedCancel", "failedContinue" }
Executed(outcome) ==
  outcome \in { "completed", "failedStop", "failedCancel", "failedContinue" }
\* exec(`npm run ${npmScript}`, false), with the manifest it finds on disk.
Run(npmScript) == [kind |-> "run", script |-> npmScript, onDisk |-> quicheToml]

RunPrompt(scriptName, answer) == Confirm(<< "Run ", scriptName, "?" >>, TRUE, answer)
ContinuePrompt(answer) ==
  Confirm(<< "Continue with workflow despite error?" >>, FALSE, answer)
\* log.error(red(`\u2717 ${scriptName} failed`)); the cross is written x here.
FailedLine(scriptName) == LogError(<< "x ", scriptName, " failed" >>)
StoppedAt(scriptName) == CancelMessage(<< "Workflow stopped at ", scriptName >>)

\* What runScript shows and is answered up to its return or its exit.
RunDialog(scriptName, outcome) ==
  CASE outcome = "cancel" ->
         << RunPrompt(scriptName, "cancel"), CancelMessage(<< "Workflow cancelled." >>) >>
    [] outcome = "declined" -> << RunPrompt(scriptName, "no") >>
    [] outcome = "completed" -> << RunPrompt(scriptName, "yes") >>
    [] outcome = "failedStop" ->
         << RunPrompt(scriptName, "yes"), FailedLine(scriptName), ContinuePrompt("no"),
            StoppedAt(scriptName) >>
    [] outcome = "failedCancel" ->
         << RunPrompt(scriptName, "yes"), FailedLine(scriptName), ContinuePrompt("cancel"),
            StoppedAt(scriptName) >>
    [] OTHER ->
         << RunPrompt(scriptName, "yes"), FailedLine(scriptName), ContinuePrompt("yes") >>

\* Faulty variant of RunScript: a declined 'Continue with workflow despite
\* error?' lets main go on.
RunScriptIgnoresDecline(shown, scriptName, npmScript, outcome, next) ==
  /\ effects' = IF Executed(outcome) THEN Append(effects, Run(npmScript)) ELSE effects
  /\ dialog' = dialog \o shown \o RunDialog(scriptName, outcome)
  /\ CASE outcome = "cancel" -> WorkflowExit("cancelled", 0)
       [] outcome = "failedCancel" -> WorkflowExit("stopped", 1)
       [] OTHER -> pc' = next /\ UNCHANGED exitCode

\* The effect of runScript(scriptName, npmScript) ending with outcome after
\* main has shown `shown`, main going on in phase next when it returns.
RunScript(shown, scriptName, npmScript, outcome, next) ==
  /\ effects' = IF Executed(outcome) THEN Append(effects, Run(npmScript)) ELSE effects
  /\ dialog' = dialog \o shown \o RunDialog(scriptName, outcome)
  /\ CASE outcome = "cancel" -> WorkflowExit("cancelled", 0)
       [] outcome \in { "failedStop", "failedCancel" } -> WorkflowExit("stopped", 1)
       [] OTHER -> pc' = next /\ UNCHANGED exitCode

versionFrame == << quicheToml, currentParsed, versionAction, workspaceToml,
                  currentVersion, newVersion, versionChanged >>

\* Step 2 (248-250).
BuildPhase ==
  /\ pc = "build"
  /\ \E outcome \in RunOutcomes :
       /\ RunScript(<< PhaseHeader("Build") >>, "build script", "build", outcome, "package")
       /\ buildRan' = (outcome = "completed")
  /\ UNCHANGED << versionFrame, releasePrompt, workflowFrame >>

\* Faulty variant of PackagePhase: the package script is offered whether or
\* not the build ran.
PackagePhaseAlways ==
  /\ pc = "package"
  /\ \E outcome \in RunOutcomes :
       RunScript(<< PhaseHeader("Package") >>, "package script", "package", outcome,
                 "commit")
  /\ UNCHANGED << versionFrame, buildRan, releasePrompt, workflowFrame >>

\* Step 3 (256-259).
PackagePhase ==
  /\ pc = "package"
  /\ IF buildRan
       THEN \E outcome \in RunOutcomes :
              RunScript(<< PhaseHeader("Package") >>, "package script", "package", outcome,
                        "commit")
       ELSE pc' = "commit" /\ UNCHANGED << exitCode, effects, dialog >>
  /\ UNCHANGED << versionFrame, buildRan, releasePrompt, workflowFrame >>

\* Step 4 (265-275).
CommitPhase ==
  /\ pc = "commit"
  /\ IF versionChanged \/ buildRan
       THEN \E tree \in GitTrees, commandFailed \in BOOLEAN :
              LET hasChanges == ~ checkGitClean(tree, commandFailed)
                  shown == << PhaseHeader("Commit"), GitStatus(tree, ~ hasChanges) >>
              IN IF hasChanges
                   THEN \E outcome \in RunOutcomes :
                          RunScript(shown, "commit script", "commit", outcome, "release")
                   ELSE /\ dialog' = dialog \o shown
                        /\ pc' = "release"
                        /\ UNCHANGED << exitCode, effects >>
       ELSE pc' = "release" /\ UNCHANGED << exitCode, effects, dialog >>
  /\ UNCHANGED << versionFrame, buildRan, releasePrompt, workflowFrame >>

ReleaseQuestion(answer) ==
  Confirm(<< "Create GitHub release for ", "v", newVersion, "?" >>, TRUE, answer)

\* Faulty variant of ReleasePhase: the accepted release runs the build
\* script once more.
ReleasePhaseRebuilds ==
  /\ pc = "release"
  /\ releasePrompt' = << newVersion >>
  /\ \E outcome \in RunOutcomes :
       RunScript(<< PhaseHeader("Release"), ReleaseQuestion("yes") >>,
                 "build script", "build", outcome, "complete")
  /\ UNCHANGED << versionFrame, buildRan, workflowFrame >>

\* Step 5 (281-297).
ReleasePhase ==
  /\ pc = "release"
  /\ releasePrompt' = << newVersion >>
  /\ \E shouldRelease \in Answers :
       CASE shouldRelease = "cancel" ->
              /\ WorkflowExit("cancelled", 0)
              /\ dialog' = dialog \o << PhaseHeader("Release"), ReleaseQuestion("cancel"),
                                        CancelMessage(<< "Workflow cancelled." >>) >>
              /\ UNCHANGED effects
         [] shouldRelease = "no" ->
              /\ pc' = "complete"
              /\ dialog' = dialog \o << PhaseHeader("Release"), ReleaseQuestion("no") >>
              /\ UNCHANGED << exitCode, effects >>
         [] OTHER ->
              \E outcome \in RunOutcomes :
                RunScript(<< PhaseHeader("Release"), ReleaseQuestion("yes") >>,
                          "release script", "release", outcome, "complete")
  /\ UNCHANGED << versionFrame, buildRan, workflowFrame >>

\* Lines 303-325: the summary; main returns and the process ends with 0.
Complete ==
  /\ pc = "complete"
  /\ WorkflowExit("done", 0)
  /\ UNCHANGED << versionFrame, buildRan, effects, releasePrompt, dialog, workflowFrame >>

WorkflowNext ==
  \/ CheckGit
  \/ ReadVersion
  \/ SelectVersion
  \/ EnterVersion
  \/ UpdateVersion
  \/ BuildPhase
  \/ PackagePhase
  \/ CommitPhase
  \/ ReleasePhase
  \/ Complete

WorkflowSpec == WorkflowInit /\ [][WorkflowNext]_vars

(***************************************************************************)
(* Properties of the orchestrator, checked under WorkflowSpec.             *)
(***************************************************************************)
\* The manifest has a version field, and its text is t.
VersionFieldIs(cargoToml, t) ==
  \E k \in 1 .. Len(cargoToml) :
    /\ cargoToml[k].key = "version" /\ cargoToml[k].value = t
    /\ \A j \in 1 .. k - 1 : cargoToml[j].key # "version"
\* The manifest has a version field with a text between its quotes; no
\* update adds or removes one.
HasVersionField(cargoToml) ==
  \E k \in 1 .. Len(cargoToml) :
    cargoToml[k].key = "version" /\ cargoToml[k].value # << >>
\* The workspace manifest names version t for quiche.
QuicheFieldIs(cargoToml, t) ==
  \E k \in 1 .. Len(cargoToml) : cargoToml[k].key = "quiche" /\ cargoToml[k].value = t
Runs == { k \in 1 .. Len(effects) : effects[k].kind = "run" }
Writes == { k \in 1 .. Len(effects) : effects[k].kind = "write" }
BuildRuns == { k \in Runs : effects[k].script = "build" }
VersionWasRead == currentVersion # << >>

\* C14: every manifest write comes before the first npm script is run, no
\* manifest is written twice, the manifest on disk does not change once a
\* script has run, and the version field the build found on disk is the
\* version the release prompt names.
VersionBeforeBuild ==
  /\ \A w \in Writes : \A r \in Runs : w < r
  /\ \A v \in Writes : \A w \in Writes : effects[v].path = effects[w].path => v = w
  /\ \A r \in Runs : effects[r].onDisk = quicheToml
  /\ \A r \in BuildRuns :
       releasePrompt # << >> => VersionFieldIs(effects[r].onDisk, releasePrompt[1])

\* C15: with a well-formed version in the manifest and a major, minor or
\* patch bump chosen, once the version step is done the manifest's version
\* field reads format(bump(parse(old), kind)), and every build that is run
\* finds that text on disk.
PersistedBump ==
  (/\ versionAction \in BumpTypes
   /\ HasVersionField(quicheToml)
   /\ WellFormed(currentVersion)) =>
    LET expected ==
          formatVersion(bumpVersion(parseVersion(currentVersion).value, versionAction))
    IN /\ versionChanged => VersionFieldIs(quicheToml, expected)
       /\ \A r \in BuildRuns :
            versionChanged /\ VersionFieldIs(effects[r].onDisk, expected)

\* 1.9.1 with a minor bump: the build found 1.10.0 on disk.
PersistedBumpWitness ==
  /\ versionAction = "minor"
  /\ currentVersion = << "1", ".", "9", ".", "1" >>
  /\ \E r \in BuildRuns :
       VersionFieldIs(effects[r].onDisk, << "1", ".", "1", "0", ".", "0" >>)

\* C16: when a manifest update fails, versionChanged is still false, the
\* process has exited with 1 and no npm script was or will be run; a script
\* is only ever run after a skipped or a fully written version update.
FailedWriteStops ==
  /\ pc = "updateFailed" =>
       /\ ~ versionChanged
       /\ exitCode = << 1 >>
       /\ Runs = { }
       /\ ~ ENABLED WorkflowNext
  /\ Runs # { } =>
       \/ versionAction = "skip" /\ Writes = { }
       \/ versionChanged /\ Cardinality(Writes) = 2

\* The update of quiche/Cargo.toml was written and that of Cargo.toml failed.
FailedWriteStopsWitness ==
  /\ pc = "updateFailed"
  /\ Cardinality(Writes) = 1
  /\ exitCode = << 1 >>

\* Main is past the version step.
PastVersionStep ==
  pc \notin { "checkGit", "readVersion", "selectVersion", "enterVersion", "updateVersion" }

\* C17: after the version step of a run whose manifest has a version field,
\* quiche/Cargo.toml and Cargo.toml both hold the new version or both hold
\* the old one, however the two writes ended.
ManifestsAtomic ==
  (PastVersionStep /\ VersionWasRead /\ HasVersionField(quicheToml)
     /\ WellFormed(currentVersion)) =>
    \/ VersionFieldIs(quicheToml, newVersion) /\ QuicheFieldIs(workspaceToml, newVersion)
    \/ /\ VersionFieldIs(quicheToml, currentVersion)
       /\ QuicheFieldIs(workspaceToml, currentVersion)

\* C19: when the manifest has no version field, or one that is not three
\* non-negative integers separated by dots, the run ends at the read with
\* exit status 1, no manifest written and no npm script run.
VersionErrorsFatal ==
  (VersionWasRead /\ (~ HasVersionField(quicheToml) \/ ~ WellFormed(currentVersion))) =>
    /\ pc = "fatal"
    /\ exitCode = << 1 >>
    /\ effects = << >>

\* C20: whenever a manifest has been written, the text written (a bump of
\* the version read, or the text the operator typed) is three non-negative
\* integers separated by dots.
WrittenVersionForm ==
  Writes # { } => WellFormed(newVersion)


(***************************************************************************)
(* The version writers on the manifest as text (workflow.ts 57-77, legacy  *)
(* release script part_002 1084-1102).  A text is a sequence of tokens: a  *)
(* word, a punctuation mark, a space, a line break or one character of a   *)
(* version.  The regular expressions are matched as the engine matches     *)
(* them: from the first line start (flag m) where the pattern fits.        *)
(***************************************************************************)
Quote == "\""
Newline == "\n"
\* \s
IsSpace(c) == c \in { " ", Newline }

\* The position after \s* matched from position p.
RECURSIVE SkipSpaces(_, _)
SkipSpaces(text, p) ==
  IF p <= Len(text) /\ IsSpace(text[p]) THEN SkipSpaces(text, p + 1) ELSE p

\* Literals separated by \s*, matched from position p: the position after the
\* last literal, 0 when they do not fit.
RECURSIVE MatchLiterals(_, _, _)
MatchLiterals(text, p, literals) ==
  IF p > Len(text) \/ text[p] # Head(literals) THEN 0
  ELSE IF Len(literals) = 1 THEN p + 1
  ELSE MatchLiterals(text, SkipSpaces(text, p + 1), Tail(literals))

\* The first quote at or after position q, 0 when there is none.
RECURSIVE NextQuote(_, _)
NextQuote(text, q) ==
  IF q > Len(text) THEN 0
  ELSE IF text[q] = Quote THEN q
  ELSE NextQuote(text, q + 1)

NoMatch == [from |-> 0, to |-> 0]

\* ^(<\s*> literals)[^"]+(") tried at position p: the extent of [^"]+.
MatchAt(text, p, literals, leadingSpace) ==
  LET start == IF leadingSpace THEN SkipSpaces(text, p) ELSE p
      q == MatchLiterals(text, start, literals)
      r == IF q = 0 THEN 0 ELSE NextQuote(text, q)
  IN IF q # 0 /\ r > q THEN [from |-> q, to |-> r - 1] ELSE NoMatch

\* Where ^ fits under flag m.
LineStarts(text) == { p \in 1 .. Len(text) : p = 1 \/ text[p - 1] = Newline }

\* The leftmost match of the pattern in text.
FirstMatchIn(text, literals, leadingSpace) ==
  LET hits == { p \in LineStarts(text) : MatchAt(text, p, literals, leadingSpace) # NoMatch }
  IN IF hits = { } THEN NoMatch
     ELSE MatchAt(text, CHOOSE p \in hits : \A h \in hits : p <= h, literals, leadingSpace)

\* Faulty variant of ReplaceValue: the closing quote is not put back.
ReplaceValueDropsQuote(text, m, version) ==
  IF m = NoMatch THEN text
  ELSE SubSeq(text, 1, m.from - 1) \o version \o SubSeq(text, m.to + 2, Len(text))

\* content.replace(regex, `$1${version}$2`): $1 and $2 put back what stood
\* around [^"]+; a text without a match is returned as it is.
ReplaceValue(text, m, version) ==
  IF m = NoMatch THEN text
  ELSE SubSeq(text, 1, m.from - 1) \o version \o SubSeq(text, m.to + 1, Len(text))

\* /^(version\s*=\s*")[^"]+(")/m  and  /^(\s*version\s*=\s*")[^"]+(".*)$/m
VersionPattern == << "version", "=", Quote >>
\* /^(quiche\s*=\s*\{\s*version\s*=\s*")[^"]+(")/m
WorkspacePattern == << "quiche", "=", "{", "version", "=", Quote >>

\* workflow.ts, updateQuicheVersion (57-65): the text handed to writeFileSync.
updateQuicheVersionText(content, version) ==
  ReplaceValue(content, FirstMatchIn(content, VersionPattern, FALSE), version)
\* workflow.ts, updateWorkspaceVersion (67-77).
updateWorkspaceVersionText(content, version) ==
  ReplaceValue(content, FirstMatchIn(content, WorkspacePattern, FALSE), version)
\* Legacy release script, updateVersion (part_002 1084-1102): the text handed
\* to writeFileSync, or the throw of line 1092 that the catch turns into
\* process.exit(1).
updateVersion(content, versionString) ==
  IF FirstMatchIn(content, VersionPattern, TRUE) = NoMatch
    THEN Exit(1, << "could not find version line in Cargo.toml" >>)
    ELSE Return(ReplaceValue(content, FirstMatchIn(content, VersionPattern, TRUE),
                             versionString))

(***************************************************************************)
(* WriteSpec: one writer applied once or twice to one manifest text.       *)
(***************************************************************************)
\* The pieces a manifest text is put together from.
TextHeads ==
  { << >>, << Newline >>, << "[package]", Newline >>,
    << "name", " ", "=", " ", Quote, "quiche", Quote, Newline >> }
TextIndents == { << >>, << " " >> }
TextGaps == { << >>, << " " >> }
TextValues == { << "1", ".", "0", ".", "0" >>, << >> }
TextTrailers == { << Newline >>, << " ", "#", Newline >>, << >> }
TextTails ==
  { << >>,
    << "version", " ", "=", " ", Quote, "9", Quote, Newline >>,
    << "quiche", " ", "=", " ", "{", " ", "version", " ", "=", " ", Quote, "1", ".", "0",
       ".", "0", Quote, ",", "}", Newline >> }
TextVersionLines ==
  { indent \o << "version" >> \o gap1 \o << "=" >> \o gap2 \o << Quote >> \o value
      \o << Quote >> \o trailer :
    indent \in TextIndents, gap1 \in TextGaps, gap2 \in TextGaps, value \in TextValues,
    trailer \in TextTrailers }
ManifestTexts ==
  { head \o line \o tail :
      head \in TextHeads, line \in TextVersionLines \cup { << >> }, tail \in TextTails }
\* The versions written: formatVersion of a Version.
WrittenVersions ==
  { formatVersion([major |-> Num(2), minor |-> Num(0), patch |-> Num(0)]),
    LegacyFormatVersion([major |-> Num(1), minor |-> Num(0), patch |-> Num(0)]) }
Writers == { "updateQuicheVersion", "updateWorkspaceVersion", "updateVersion" }

writeFrame == << probes, shell, hasCross, hasDocker, availablePlatforms, selectedPlatforms, promptVars,
                buildVars, summaryVars, registry, currentParsed, versionAction,
                bumpResults, quicheToml, readResults, workspaceToml, currentVersion,
                versionChanged, buildRan, effects, releasePrompt, dialog, scriptVars >>

WriteInit ==
  /\ pc = "writeStart"
  /\ exitCode = << >>
  /\ BuildIdle
  /\ registry = PLATFORMS
  /\ currentParsed = << >>
  /\ versionAction = "unset"
  /\ bumpResults = << >>
  /\ quicheToml = << >>
  /\ readResults = << >>
  /\ workspaceToml = << >>
  /\ currentVersion = << >>
  /\ newVersion \in WrittenVersions
  /\ versionChanged = FALSE
  /\ buildRan = FALSE
  /\ effects = << >>
  /\ releasePrompt = << >>
  /\ dialog = << >>
  /\ cargoText \in ManifestTexts
  /\ written = << >>
  /\ ScriptIdle

\* One call of writer `by` that handed text `after` to writeFileSync.
TextWrite(by, after) ==
  [by |-> by, version |-> newVersion, before |-> cargoText, after |-> after]

\* A writer is called a second time only on the file it wrote.
MayWrite(by) ==
  /\ pc = "writeStart"
  /\ written = << >> \/ (Len(written) = 1 /\ written[1].by = by)

\* readFileSync or writeFileSync throws: the file is as it was and the
\* exception leaves the function.
WriteThrows ==
  /\ pc = "writeStart"
  /\ Len(written) < 2
  /\ pc' = "writeThrew"
  /\ UNCHANGED << exitCode, newVersion, cargoText, written, writeFrame >>

WriteQuicheText ==
  /\ MayWrite("updateQuicheVersion")
  /\ cargoText' = updateQuicheVersionText(cargoText, newVersion)
  /\ written' = Append(written, TextWrite("updateQuicheVersion", cargoText'))
  /\ UNCHANGED << pc, exitCode, newVersion, writeFrame >>

WriteWorkspaceText ==
  /\ MayWrite("updateWorkspaceVersion")
  /\ cargoText' = updateWorkspaceVersionText(cargoText, newVersion)
  /\ written' = Append(written, TextWrite("updateWorkspaceVersion", cargoText'))
  /\ UNCHANGED << pc, exitCode, newVersion, writeFrame >>

WriteLegacyText ==
  /\ MayWrite("updateVersion")
  /\ LET updated == updateVersion(cargoText, newVersion)
     IN IF "exit" \in DOMAIN updated
          THEN /\ pc' = "writeExited"
               /\ exitCode' = << updated.exit >>
               /\ UNCHANGED << cargoText, written >>
          ELSE /\ cargoText' = updated.value
               /\ written' = Append(written, TextWrite("updateVersion", cargoText'))
               /\ UNCHANGED << pc, exitCode >>
  /\ UNCHANGED << newVersion, writeFrame >>

WriteNext ==
  \/ WriteThrows
  \/ WriteQuicheText
  \/ WriteWorkspaceText
  \/ WriteLegacyText

WriteSpec == WriteInit /\ [][WriteNext]_vars

\* Positions first .. last of text hold the text between the quotes of a line the
\* writer `by` looks for: the line reads version = "..." (for the workspace
\* writer quiche = { version = "...") up to the opening quote, white space
\* set aside, and only the legacy writer accepts white space before the key.
QuotedValueAt(text, by, first, last) ==
  /\ first > 1 /\ last < Len(text) /\ first <= last
  /\ text[first - 1] = Quote /\ text[last + 1] = Quote
  /\ \A k \in first .. last : text[k] # Quote
  /\ \E s \in LineStarts(text) :
       /\ s < first
       /\ by # "updateVersion" => ~ IsSpace(text[s])
       /\ SelectSeq(SubSeq(text, s, first - 1), LAMBDA c : ~ IsSpace(c)) =
            IF by = "updateWorkspaceVersion" THEN WorkspacePattern ELSE VersionPattern

\* The quoted values of the lines writer `by` looks for, as << first, last >>.
QuotedValues(text, by) ==
  { span \in (1 .. Len(text)) \X (1 .. Len(text)) : QuotedValueAt(text, by, span[1], span[2]) }

\* C21: a version write changes only the quoted value of the first version
\* line: the text before the value and the text after it, every other line
\* included, are what they were; a text without such a line is written back
\* as it was; and a second write of the same version changes nothing.
WriteFrame ==
  /\ \A k \in 1 .. Len(written) :
       LET w == written[k]
           spans == QuotedValues(w.before, w.by)
       IN IF spans = { } THEN w.after = w.before
          ELSE \E span \in spans :
                 /\ \A other \in spans : span[1] <= other[1]
                 /\ w.after = SubSeq(w.before, 1, span[1] - 1) \o w.version
                                \o SubSeq(w.before, span[2] + 1, Len(w.before))
  /\ Len(written) = 2 => written[2].after = written[2].before
  /\ written # << >> => cargoText = written[Len(written)].after

\* The version of an indented line with a comment after it, in a manifest
\* with a second version line, has been rewritten and then written again.
WriteFrameWitness ==
  /\ Len(written) = 2
  /\ written[1].after # written[1].before
  /\ \E span \in QuotedValues(written[1].before, written[1].by) :
       /\ span[2] + 2 <= Len(written[1].before)
       /\ written[1].before[span[2] + 2] = " "
       /\ \E other \in QuotedValues(written[1].before, written[1].by) : other[1] > span[1]
       /\ span[1] > 4


(***************************************************************************)
(* Phases, prompts and exits of the orchestrator, checked under            *)
(* WorkflowSpec.                                                           *)
(***************************************************************************)
Phases == << "VersionUpdate", "Build", "Package", "Commit", "Release" >>
\* The place of a phase in the fixed order.
PhaseRank(name) == CHOOSE k \in 1 .. Len(Phases) : Phases[k] = name
\* The phase an effect belongs to.
PhaseOf(effect) ==
  CASE effect.kind = "write" -> "VersionUpdate"
    [] effect.script = "build" -> "Build"
    [] effect.script = "package" -> "Package"
    [] effect.script = "commit" -> "Commit"
    [] OTHER -> "Release"
\* The phase headers shown so far, in order.
Headers == SelectSeq(dialog, LAMBDA e : e.kind = "phase")
\* The phase main is in or has ended in, 0 before the version step.
PcRank(at) ==
  CASE at \in { "selectVersion", "enterVersion", "updateVersion", "updateFailed" } -> 1
    [] at = "build" -> 2
    [] at = "package" -> 3
    [] at = "commit" -> 4
    [] at \in { "release", "complete", "done" } -> 5
    [] OTHER -> 0

\* C22: the effects of a run are in phase order: an effect of a later phase
\* never precedes one of an earlier phase, the only two effects of one phase
\* are the two manifest writes of VersionUpdate, no script is run twice, the
\* phase headers are shown in the same order, each at most once, and an
\* effect belongs to a phase main has reached.
PhaseOrder ==
  /\ \A a \in 1 .. Len(effects) : \A b \in a + 1 .. Len(effects) :
       \/ PhaseRank(PhaseOf(effects[a])) < PhaseRank(PhaseOf(effects[b]))
       \/ /\ effects[a].kind = "write" /\ effects[b].kind = "write"
          /\ effects[a].path # effects[b].path
  /\ \A a \in 1 .. Len(Headers) : \A b \in a + 1 .. Len(Headers) :
       PhaseRank(Headers[a].name) < PhaseRank(Headers[b].name)
  /\ pc \notin { "cancelled", "stopped" } =>
       \A a \in 1 .. Len(effects) : PhaseRank(PhaseOf(effects[a])) <= PcRank(pc)

\* A run in which all five phases executed.
PhaseOrderWitness ==
  /\ pc = "done"
  /\ Len(effects) = 6
  /\ \A k \in 1 .. Len(Phases) : \E a \in 1 .. Len(effects) : PhaseOf(effects[a]) = Phases[k]


\* The 'Continue anyway?' prompts shown so far.
DirtyPrompts ==
  { k \in 1 .. Len(dialog) :
      dialog[k].kind = "confirm" /\ dialog[k].message = << "Continue anyway?" >> }
\* main has gone past the git check.
PastGitCheck == PcRank(pc) >= 1 \/ pc \in { "readVersion", "fatal", "stopped" }

\* C23: when the working tree is not clean at the start, main goes past the
\* git check only after 'Continue anyway?' was answered yes; a run in which
\* that prompt was declined or cancelled has ended with nothing written and
\* nothing run; and with a clean tree the prompt is not shown.
DirtyTreeGate ==
  dialog # << >> =>
    /\ (dialog[1].tree = "dirty" /\ (PastGitCheck \/ effects # << >>)) =>
         \E k \in DirtyPrompts : dialog[k].answer = "yes"
    /\ (\E k \in DirtyPrompts : dialog[k].answer # "yes") =>
         pc = "cancelled" /\ effects = << >>
    /\ dialog[1].tree = "clean" => DirtyPrompts = { }


\* The header of phase `name` has been shown.
Offered(name) == \E k \in 1 .. Len(dialog) : dialog[k] = PhaseHeader(name)
\* The npm script has been started.
Started(npmScript) == \E k \in Runs : effects[k].script = npmScript
\* The build script was started and did not fail.
BuildSucceeded ==
  /\ Started("build")
  /\ \A k \in 1 .. Len(dialog) : dialog[k] # FailedLine("build script")
\* Both manifests were rewritten.
VersionWritten == \E k \in Writes : effects[k].path = "Cargo.toml"
\* The git status of the commit phase found changes in the tree.
CommitFoundChanges ==
  \E k \in 2 .. Len(dialog) :
    /\ dialog[k - 1] = PhaseHeader("Commit")
    /\ dialog[k] = GitStatus("dirty", FALSE)

\* C24: the package phase is offered, and the package script started, only
\* in a run whose build script was started and did not fail; the commit
\* phase is offered only when the manifests were rewritten or the build
\* succeeded; and the commit script is started only when, in addition, git
\* status found changes in the working tree.
SkipIfNothingToDo ==
  /\ (Offered("Package") \/ Started("package")) => BuildSucceeded
  /\ Offered("Commit") => VersionWritten \/ BuildSucceeded
  /\ Started("commit") => Offered("Commit") /\ CommitFoundChanges

\* A finished run whose build failed and was continued: no package phase,
\* and the commit script run for the rewritten manifests.
SkipIfNothingToDoWitness ==
  /\ pc = "done"
  /\ Started("build") /\ ~ BuildSucceeded
  /\ ~ Offered("Package")
  /\ VersionWritten
  /\ Started("commit")


ScriptNames == { "build script", "package script", "commit script", "release script" }
\* The npm script runScript starts for a script name.
NpmScriptOf(scriptName) ==
  CASE scriptName = "build script" -> "build"
    [] scriptName = "package script" -> "package"
    [] scriptName = "commit script" -> "commit"
    [] OTHER -> "release"
\* The positions of dialog where a failed command is reported.
Failures == { k \in 1 .. Len(dialog) : dialog[k].kind = "error" }
\* The answer given to the prompt that follows the failure reported at k.
ContinueAnswer(k) == dialog[k + 1].answer

\* C25: a failed command is reported with the name of the script that was
\* just confirmed and started, and is followed by 'Continue with workflow
\* despite error?' with initial value no; when that is declined or cancelled
\* the run has stopped with exit status 1, names the same script, and
\* nothing was shown or run after it; when it is accepted the run does not
\* stop there, and a failed build is recorded as not run.
AbortOnDeclinedContinue ==
  \A k \in Failures :
    \E scriptName \in ScriptNames :
      /\ dialog[k] = FailedLine(scriptName)
      /\ k > 1 /\ dialog[k - 1] = RunPrompt(scriptName, "yes")
      /\ Started(NpmScriptOf(scriptName))
      /\ k < Len(dialog)
      /\ dialog[k + 1] = ContinuePrompt(ContinueAnswer(k))
      /\ dialog[k + 1].initialValue = FALSE
      /\ IF ContinueAnswer(k) \in { "no", "cancel" }
           THEN /\ Len(dialog) = k + 2
                /\ dialog[k + 2] = StoppedAt(scriptName)
                /\ pc = "stopped"
                /\ exitCode = << 1 >>
                /\ effects[Len(effects)] = Run(NpmScriptOf(scriptName))
           ELSE /\ Len(dialog) = k + 1 => pc # "stopped" /\ exitCode # << 1 >>
                /\ \A j \in 1 .. Len(dialog) : dialog[j] # StoppedAt(scriptName)
                /\ scriptName = "build script" => ~ buildRan /\ ~ Offered("Package")

\* The package script failed and the operator declined to continue.
AbortOnDeclinedContinueWitness ==
  /\ pc = "stopped"
  /\ \E k \in Failures : dialog[k] = FailedLine("package script") /\ ContinueAnswer(k) = "no"

\* The prompts answered so far, as positions of dialog.
Prompts == { k \in 1 .. Len(dialog) : "answer" \in DOMAIN dialog[k] }
\* The run has ended because the operator cancelled a prompt: the process
\* has exited and the last prompt shown was cancelled.
EndedByCancel ==
  /\ exitCode # << >>
  /\ \E k \in Prompts :
       /\ dialog[k].answer = "cancel"
       /\ \A j \in Prompts : j <= k

\* C26: in a run that ended because the operator cancelled a prompt no
\* manifest was written and no command was run.
CancelledNoSideEffects == EndedByCancel => effects = << >>


(***************************************************************************)
(* TargetSpec: the build loop of the legacy release script (part_002       *)
(* 1355-1361) and buildTarget (1203-1259).  Every runCommand is one step:  *)
(* execSync blocks until the command has ended, and a failed command       *)
(* throws (1116-1124).                                                     *)
(***************************************************************************)
\* The values of the 'select build targets' choices, in their order.
LegacyTargets == << "android", "ios", "computer" >>
\* What the multiselect can return with at least one target ticked.
TargetChoices ==
  { SelectSeq(LegacyTargets, LAMBDA t : t \in ticked) :
      ticked \in (SUBSET { "android", "ios", "computer" }) \ { { } } }
\* A command handed to runCommand, and whether it ended with status 0.
Command(command, ok) == [kind |-> "command", command |-> command, ok |-> ok]
\* `nwep-build-${target}-${Date.now()}`
ContainerName(target) == << "nwep-build-", target >>
\* A container of the daemon that no build made.
OtherContainer == << "registry" >>
\* The target of the current iteration.
Target == targetChoice[i]
\* The cargo command of the native switch (1240-1253).
NativeCommand(target) ==
  CASE target = "android" -> "cargo build --features ffi --target aarch64-linux-android"
    [] target = "ios" -> "cargo build --features ffi --target aarch64-apple-ios"
    [] OTHER -> "cargo build --features ffi"

targetFrame == << probes, shell, hasCross, hasDocker, availablePlatforms, selectedPlatforms, promptVars,
                 children, promises, results, spawnLog, settleLog, summaryVars, registry,
                 currentParsed, versionAction, bumpResults, quicheToml, readResults,
                 workspaceToml, currentVersion, newVersion, versionChanged, buildRan,
                 releasePrompt, textVars, release, assets >>

TargetInit ==
  /\ pc = "buildTarget"
  /\ exitCode = << >>
  /\ BuildIdle
  /\ registry = PLATFORMS
  /\ WorkflowRunIdle
  /\ currentParsed = << >>
  /\ versionAction = "unset"
  /\ bumpResults = << >>
  /\ quicheToml = << >>
  /\ readResults = << >>
  /\ TextIdle
  /\ useDocker \in BOOLEAN
  /\ targetChoice \in TargetChoices
  /\ containers \in { { }, { OtherContainer } }
  /\ release = << >>
  /\ assets = << >>

\* runCommand threw out of buildTarget: main's promise rejects and
\* main().catch (1433-1436) exits with 1.
BuildThrows ==
  /\ pc' = "buildThrew"
  /\ exitCode' = << 1 >>
  /\ UNCHANGED i

\* buildTarget returned: the next iteration of the for loop, or past it.
BuildReturns ==
  /\ i' = i + 1
  /\ pc' = IF i < Len(targetChoice) THEN "buildTarget" ELSE "buildsDone"
  /\ UNCHANGED exitCode

\* Lines 1206-1214 and 1237-1255: the native build, also the fall-back of the
\* mobile targets under Docker.
NativeBuild ==
  /\ pc = "buildTarget"
  /\ ~ useDocker \/ Target \in { "android", "ios" }
  /\ \E ok \in BOOLEAN :
       /\ effects' = Append(effects, Command(NativeCommand(Target), ok))
       /\ IF ok THEN BuildReturns ELSE BuildThrows
  /\ UNCHANGED << targetChoice, useDocker, containers, dialog, targetFrame >>

\* Line 1221: docker build.
DockerBuild ==
  /\ pc = "buildTarget"
  /\ useDocker /\ Target \notin { "android", "ios" }
  /\ \E ok \in BOOLEAN :
       /\ effects' = Append(effects, Command("docker build", ok))
       /\ IF ok THEN pc' = "dockerCreate" /\ UNCHANGED << i, exitCode >>
               ELSE BuildThrows
  /\ UNCHANGED << targetChoice, useDocker, containers, dialog, targetFrame >>

\* Line 1225: docker create, before the try.
DockerCreate ==
  /\ pc = "dockerCreate"
  /\ \E ok \in BOOLEAN :
       /\ effects' = Append(effects, Command("docker create", ok))
       /\ IF ok
            THEN /\ containers' = containers \cup { ContainerName(Target) }
                 /\ pc' = "mkdir"
                 /\ UNCHANGED << i, exitCode >>
            ELSE /\ BuildThrows
                 /\ UNCHANGED containers
  /\ UNCHANGED << targetChoice, useDocker, dialog, targetFrame >>

\* Line 1229, inside the try: a throw goes to the finally block.
MakeTargetDir ==
  /\ pc = "mkdir"
  /\ \E ok \in BOOLEAN :
       /\ effects' = Append(effects, Command("mkdir -p", ok))
       /\ pc' = IF ok THEN "dockerCp" ELSE "dockerRmThrowing"
  /\ UNCHANGED << i, exitCode, targetChoice, useDocker, containers, dialog, targetFrame >>

\* Faulty variant of DockerCp: a failed copy throws past the clean-up.
DockerCpNoFinally ==
  /\ pc = "dockerCp"
  /\ \E ok \in BOOLEAN :
       /\ effects' = Append(effects, Command("docker cp", ok))
       /\ IF ok THEN pc' = "dockerRm" /\ UNCHANGED << i, exitCode >>
               ELSE BuildThrows
  /\ UNCHANGED << targetChoice, useDocker, containers, dialog, targetFrame >>

\* Line 1233, inside the try.
DockerCp ==
  /\ pc = "dockerCp"
  /\ \E ok \in BOOLEAN :
       /\ effects' = Append(effects, Command("docker cp", ok))
       /\ pc' = IF ok THEN "dockerRm" ELSE "dockerRmThrowing"
  /\ UNCHANGED << i, exitCode, targetChoice, useDocker, containers, dialog, targetFrame >>

\* Lines 1235-1238, the finally block: docker rm; when it fails its own
\* exception leaves buildTarget, otherwise the pending one does, if any.
DockerRm ==
  /\ pc \in { "dockerRm", "dockerRmThrowing" }
  /\ \E ok \in BOOLEAN :
       /\ effects' = Append(effects, Command("docker rm", ok))
       /\ containers' = IF ok THEN containers \ { ContainerName(Target) } ELSE containers
       /\ IF ok /\ pc = "dockerRm" THEN BuildReturns ELSE BuildThrows
  /\ UNCHANGED << targetChoice, useDocker, dialog, targetFrame >>

TargetNext ==
  \/ NativeBuild
  \/ DockerBuild
  \/ DockerCreate
  \/ MakeTargetDir
  \/ DockerCp
  \/ DockerRm

TargetSpec == TargetInit /\ [][TargetNext]_vars

\* The positions of the log where command ran, with outcome ok.
Ran(command, ok) == { k \in 1 .. Len(effects) : effects[k] = Command(command, ok) }
\* The throwaway containers the daemon holds.
BuildContainers == containers \ { OtherContainer }
\* The build loop is over: every buildTarget returned, or one threw.
BuildsEnded == pc \in { "buildsDone", "buildThrew" }

\* C27, as stated: no run ends with the container created and not removed.
NoContainerLeft == BuildsEnded => BuildContainers = { }

\* C27: once docker create has succeeded, buildTarget does not return or
\* throw before docker rm has been run, once, after the copy steps, whether
\* they succeeded or failed; and a container is left only when docker rm
\* itself failed.
ContainerCleanup ==
  /\ BuildsEnded =>
       \A k \in Ran("docker create", TRUE) :
         /\ \E j \in Ran("docker rm", TRUE) \cup Ran("docker rm", FALSE) :
              /\ j > k
              /\ \A c \in Ran("mkdir -p", TRUE) \cup Ran("mkdir -p", FALSE)
                            \cup Ran("docker cp", TRUE) \cup Ran("docker cp", FALSE) : c < j
         /\ Cardinality(Ran("docker rm", TRUE) \cup Ran("docker rm", FALSE)) = 1
  /\ (BuildsEnded /\ BuildContainers # { }) => Ran("docker rm", FALSE) # { }
  /\ Ran("docker rm", TRUE) # { } => BuildContainers = { }

\* The copy out of the container failed, the container was removed and the
\* exception of the copy left buildTarget.
ContainerCleanupWitness ==
  /\ pc = "buildThrew"
  /\ Ran("docker create", TRUE) # { }
  /\ Ran("docker cp", FALSE) # { }
  /\ Ran("docker rm", TRUE) # { }
  /\ BuildContainers = { }


(***************************************************************************)
(* ReleaseSpec: the release script (part_002 706-1015) from the packaging  *)
(* loop on, run any number of times for one tag.  release is the state of  *)
(* the tag's release on GitHub: << >> when there is none, otherwise the    *)
(* set of its asset names.  gh release create fails for a tag that has a   *)
(* release, gh release upload fails without one and, not being given       *)
(* --clobber, for an asset name the release already holds.                 *)
(***************************************************************************)
\* The platform directories under releases/v<version>.
ReleasePlatforms == << "android-arm64", "linux-x64", "windows-x64" >>
\* What 'Select platforms to include in release:' can return (required).
PlatformSelections ==
  { SelectSeq(ReleasePlatforms, LAMBDA q : q \in ticked) :
      ticked \in (SUBSET { "android-arm64", "linux-x64", "windows-x64" }) \ { { } } }
\* basename of zipPath and of tarPath (886-887).
ZipName(platform) == << "quiche-nwep-", platform, ".zip" >>
TarName(platform) == << "quiche-nwep-", platform, ".tar.gz" >>
\* The releases of the tag the script can find on GitHub.
Releases ==
  { << >>, << { } >>, << { ZipName("linux-x64"), TarName("linux-x64") } >> }

\* exec (571-585) of `gh release view v${version} 2>&1`, silent: the text gh
\* printed, or '' when gh ended with a non-zero status, as it does for a tag
\* without a release.
ViewOutput(remote) == IF remote = << >> THEN "" ELSE "title: quiche-nwep"
\* existingRelease.includes('release not found')
IncludesNotFound(output) == output = "release not found"
\* Line 927.
ReleaseExists(existingRelease) == ~ IncludesNotFound(existingRelease)
\* gh release create: status 0 only for a tag without a release.
CreateSucceeds(remote) == remote = << >>
\* gh release upload <tag> <file>, without --clobber.
UploadSucceeds(remote, name) == remote # << >> /\ name \notin remote[1]

releaseFrame == << probes, shell, hasCross, hasDocker, availablePlatforms, promptVars, children,
                  promises, results, spawnLog, settleLog, summaryVars, registry,
                  currentParsed, versionAction, bumpResults, quicheToml, readResults,
                  workspaceToml, currentVersion, newVersion, versionChanged, buildRan,
                  releasePrompt, textVars, targetChoice, useDocker, containers >>

\* 'Create release?' has been confirmed (861-869): the packaging loop starts.
ReleaseStart ==
  /\ pc = "package"
  /\ exitCode = << >>
  /\ i = 1
  /\ assets = << >>
  /\ effects = << >>
  /\ dialog = << >>
  /\ selectedPlatforms \in PlatformSelections

ReleaseInit ==
  /\ ReleaseStart
  /\ probes = << >>
  /\ shell = << >>
  /\ hasCross = FALSE
  /\ hasDocker = FALSE
  /\ availablePlatforms = << >>
  /\ buildMode = "unset"
  /\ features = << >>
  /\ parallel = FALSE
  /\ verbose = FALSE
  /\ children = << >>
  /\ promises = << >>
  /\ results = << >>
  /\ successful = << >>
  /\ failed = << >>
  /\ spawnLog = << >>
  /\ settleLog = << >>
  /\ registry = PLATFORMS
  /\ currentParsed = << >>
  /\ versionAction = "unset"
  /\ bumpResults = << >>
  /\ quicheToml = << >>
  /\ readResults = << >>
  /\ workspaceToml = << >>
  /\ currentVersion = << >>
  /\ newVersion = << >>
  /\ versionChanged = FALSE
  /\ buildRan = FALSE
  /\ releasePrompt = << >>
  /\ TextIdle
  /\ targetChoice = << >>
  /\ useDocker = FALSE
  /\ containers = { }
  /\ release \in Releases

\* process.exit(code), or main returning (code 0) or rejecting (code 1,
\* main().catch 1017-1020).
ReleaseExit(at, code) ==
  /\ pc' = at
  /\ exitCode' = << code >>

\* One iteration of the packaging loop (880-913).
PackagePlatform ==
  /\ pc = "package"
  /\ \E ok \in BOOLEAN :
       IF ok
         THEN /\ assets' = Append(assets, selectedPlatforms[i])
              /\ i' = IF i < Len(selectedPlatforms) THEN i + 1 ELSE 1
              /\ pc' = IF i < Len(selectedPlatforms) THEN "package" ELSE "checkExisting"
              /\ UNCHANGED exitCode
         ELSE /\ ReleaseExit("releaseFailed", 1)
              /\ UNCHANGED << assets, i >>
  /\ UNCHANGED << release, effects, dialog, selectedPlatforms, releaseFrame >>

\* Lines 925-964: gh release view; then 'Use existing release and upload
\* assets?' or gh release create.
CheckExisting ==
  /\ pc = "checkExisting"
  /\ LET existingRelease == ViewOutput(release)
         viewed == Command(<< "gh release view" >>, release # << >>)
     IN IF ReleaseExists(existingRelease)
          THEN \E useExisting \in Answers :
                 /\ dialog' = Append(dialog,
                                     Confirm(<< "Use existing release and upload assets?" >>,
                                             TRUE, useExisting))
                 /\ effects' = Append(effects, viewed)
                 /\ IF useExisting = "yes"
                      THEN pc' = "uploadZip" /\ UNCHANGED exitCode
                      ELSE ReleaseExit("releaseCancelled", 0)
                 /\ UNCHANGED release
          ELSE /\ effects' = effects \o
                    << viewed, Command(<< "gh release create" >>, CreateSucceeds(release)) >>
               /\ IF CreateSucceeds(release)
                    THEN /\ release' = << { } >>
                         /\ pc' = "uploadZip"
                         /\ UNCHANGED exitCode
                    ELSE /\ ReleaseExit("releaseFailed", 1)
                         /\ UNCHANGED release
               /\ UNCHANGED dialog
  /\ UNCHANGED << i, assets, selectedPlatforms, releaseFrame >>

\* exec(`gh release upload v${version} "${file}"`, false) for asset `name`.
Upload(name, next) ==
  /\ effects' = Append(effects, Command(<< "gh release upload", name >>,
                                        UploadSucceeds(release, name)))
  /\ IF UploadSucceeds(release, name)
       THEN /\ release' = << release[1] \cup { name } >>
            /\ pc' = next
            /\ UNCHANGED exitCode
       ELSE /\ ReleaseExit("releaseFailed", 1)
            /\ UNCHANGED release

\* Lines 972-979 of the upload loop.
UploadZip ==
  /\ pc = "uploadZip"
  /\ Upload(ZipName(assets[i]), "uploadTar")
  /\ UNCHANGED << i, assets, dialog, selectedPlatforms, releaseFrame >>

\* Lines 981-988 of the upload loop.
UploadTar ==
  /\ pc = "uploadTar"
  /\ Upload(TarName(assets[i]), IF i < Len(assets) THEN "uploadZip" ELSE "finish")
  /\ i' = IF UploadSucceeds(release, TarName(assets[i])) /\ i < Len(assets) THEN i + 1 ELSE i
  /\ UNCHANGED << assets, dialog, selectedPlatforms, releaseFrame >>

\* Lines 992-1014: the closing message; main returns.
FinishRelease ==
  /\ pc = "finish"
  /\ ReleaseExit("releaseDone", 0)
  /\ UNCHANGED << i, assets, release, effects, dialog, selectedPlatforms, releaseFrame >>

\* The release step is run again for the same tag.
RunReleaseAgain ==
  /\ pc \in { "releaseDone", "releaseFailed", "releaseCancelled" }
  /\ pc' = "package"
  /\ exitCode' = << >>
  /\ i' = 1
  /\ assets' = << >>
  /\ effects' = << >>
  /\ dialog' = << >>
  /\ selectedPlatforms' \in PlatformSelections
  /\ UNCHANGED << release, releaseFrame >>

ReleaseNext ==
  \/ PackagePlatform
  \/ CheckExisting
  \/ UploadZip
  \/ UploadTar
  \/ FinishRelease
  \/ RunReleaseAgain

ReleaseSpec == ReleaseInit /\ [][ReleaseNext]_vars

\* The run found a release for the tag, and the operator chose to use it.
UsedExisting ==
  /\ Ran(<< "gh release view" >>, TRUE) # { }
  /\ \E k \in 1 .. Len(dialog) : dialog[k].answer = "yes"
\* The run has ended.
ReleaseEnded == pc \in { "releaseDone", "releaseFailed", "releaseCancelled" }

\* C28: a run that found a release for the tag does not run gh release
\* create and does not fail: when the operator uses the existing release the
\* run ends with status 0 and with both archives of every packaged platform
\* among the assets of the release.
ExistingReleaseReused ==
  /\ Ran(<< "gh release view" >>, TRUE) # { } =>
       Ran(<< "gh release create" >>, TRUE) \cup Ran(<< "gh release create" >>, FALSE) = { }
  /\ (ReleaseEnded /\ UsedExisting) =>
       /\ exitCode = << 0 >>
       /\ \A k \in 1 .. Len(assets) :
            { ZipName(assets[k]), TarName(assets[k]) } \subseteq release[1]


(***************************************************************************)
(* ProbeSpec: checkPrerequisites and the filter (build.ts 139-158,         *)
(* 257-268) for each way the two probe commands can end, over the shipped  *)
(* registry and its sub-registries.                                        *)
(***************************************************************************)
ProbePairs == [cross : ProbeOutcomes, docker : ProbeOutcomes]

ProbeInit ==
  /\ pc = "checkPrerequisites"
  /\ exitCode = << >>
  /\ probes \in ProbePairs
  /\ shell = << >>
  /\ hasCross = FALSE
  /\ hasDocker = FALSE
  /\ availablePlatforms = << >>
  /\ selectedPlatforms = << >>
  /\ buildMode = "unset"
  /\ features = << >>
  /\ parallel = FALSE
  /\ verbose = FALSE
  /\ i = 1
  /\ children = << >>
  /\ promises = << >>
  /\ results = << >>
  /\ successful = << >>
  /\ failed = << >>
  /\ spawnLog = << >>
  /\ settleLog = << >>
  /\ WorkflowIdle
  /\ registry \in Registries \cup { PLATFORMS }

\* main's first steps with the probes ending as fixed.
Detect == CheckPrerequisitesWith(probes.cross, probes.docker)

\* Detection, and the platform prompt that shows what was found available.
ProbeNext ==
  \/ Detect
  \/ SelectPlatforms

ProbeSpec == ProbeInit /\ [][ProbeNext]_vars

\* C29: however the two probe commands end, checkPrerequisites returns: no
\* exception leaves it, both flags are booleans, and each flag is true
\* exactly when its own probe ended with status 0, whatever the other probe
\* did.
DetectionNeverThrows ==
  /\ pc = "checkPrerequisites" => ENABLED Detect
  /\ pc # "checkPrerequisites" =>
       /\ pc # "fatal"
       /\ hasCross \in BOOLEAN /\ hasDocker \in BOOLEAN
       /\ hasCross <=> probes.cross = "exit0"
       /\ hasDocker <=> probes.docker = "exit0"

\* cross could not be spawned and docker info ended with status 0: the
\* docker backend alone is reported available.
DetectionNeverThrowsWitness ==
  /\ pc = "selectPlatforms"
  /\ probes = [cross |-> "spawnError", docker |-> "exit0"]
  /\ ~ hasCross /\ hasDocker


(***************************************************************************)
(* The final summary of the build script, checked under Spec.              *)
(***************************************************************************)
\* The strictly increasing maps from the positions of list into 1 .. n.
Embeddings(list, n) ==
  { f \in [1 .. Len(list) -> 1 .. n] :
      \A a \in 1 .. Len(list) : \A b \in 1 .. Len(list) : a < b => f[a] < f[b] }

\* C30: in the final summary the succeeded and the failed list are taken
\* from the result list in its order, no result is in both and every result
\* is in one of them, each with its own outcome, so that every selected
\* platform is listed once; and the failed list is empty exactly when the
\* exit status is 0.
SummaryPartition ==
  pc = "done" =>
    /\ \E f \in Embeddings(successful, Len(results)) :
         \E g \in Embeddings(failed, Len(results)) :
           /\ \A n \in 1 .. Len(successful) :
                successful[n] = results[f[n]] /\ successful[n].success
           /\ \A n \in 1 .. Len(failed) :
                failed[n] = results[g[n]] /\ ~ failed[n].success
           /\ { f[n] : n \in 1 .. Len(successful) } \cap { g[n] : n \in 1 .. Len(failed) } = { }
           /\ { f[n] : n \in 1 .. Len(successful) } \cup { g[n] : n \in 1 .. Len(failed) }
                = 1 .. Len(results)
    /\ \A k \in 1 .. Len(selectedPlatforms) :
         Cardinality({ n \in 1 .. Len(successful) :
                         successful[n].platform = selectedPlatforms[k] })
           + Cardinality({ n \in 1 .. Len(failed) :
                             failed[n].platform = selectedPlatforms[k] }) = 1
    /\ failed = << >> <=> exitCode = << 0 >>

\* A summary with the first platform failed and the second succeeded.
SummaryPartitionWitness ==
  /\ pc = "done"
  /\ Len(results) = 2
  /\ failed = << results[1] >>
  /\ successful = << results[2] >>


(***************************************************************************)
(* Children run to completion, checked under Spec.                         *)
(***************************************************************************)
\* Child k was spawned and has emitted neither 'close' nor 'error' yet: its
\* process is still running.
StillRunning(k) == children[k].state = "spawned"
\* main is past the last prompt (352-360) and in the build or the summary.
PastPrompts == pc \in { "map", "awaitAll", "seqLoop", "seqAwait", "summary", "done", "fatal" }

\* C31: whenever the build script has called process.exit no child it
\* spawned is still running, and as long as main is at a prompt or has left
\* through a prompt (cancelled, declined, no targets) no build was invoked.
ChildrenRunToCompletion ==
  /\ exitCode # << >> => \A k \in 1 .. Len(children) : ~ StillRunning(k)
  /\ ~ PastPrompts => spawnLog = << >> /\ children = << >>
  /\ pc = "cancelled" => exitCode = << 0 >> /\ spawnLog = << >>

\* Two children were spawned in parallel, one failed to spawn and the other
\* exited, and the script has exited after its summary.
ChildrenRunToCompletionWitness ==
  /\ pc = "done"
  /\ parallel
  /\ Len(children) = 2
  /\ exitCode = << 1 >>
  /\ \E k \in 1 .. 2 : children[k].events[1].type = "error"
  /\ \E k \in 1 .. 2 : children[k].events[1].type = "close"


(***************************************************************************)
(* Termination of the build script and of the orchestrator.  LiveSpec runs *)
(* either script under the assumptions of the claim: the operator answers  *)
(* every prompt, every spawned child ends with 'close' or 'error', every   *)
(* synchronous command of the orchestrator returns, and the event loop     *)
(* runs the ready continuations of main.                                   *)
(***************************************************************************)
\* The registries of the build runs: the native target alone and together
\* with a container-built one, in the order of PLATFORMS.
LiveRegistries ==
  { SelectSeq(PLATFORMS, LAMBDA p : p.id \in S) : S \in { { "native" }, { "android-arm64", "native" } } }

\* The manifests of the orchestrator runs: no version line, a version that
\* parses, and two that make parseVersion throw.
LiveManifests ==
  { m \in WorkflowManifests :
      \/ Len(m) = 1
      \/ m[2].value \in { << "1", ".", "9", ".", "1" >>, << "1", ".", "9" >>,
                          << "v", "1", ".", "1", ".", "9" >> } }

LiveInit ==
  \/ MainStart /\ registry \in LiveRegistries
  \/ WorkflowInit /\ quicheToml \in LiveManifests

\* The operator answers the prompt main of build.ts is waiting at.
BuildPrompt ==
  SelectPlatforms \/ SelectMode \/ SelectFeatures \/ AskParallel \/ AskVerbose \/ ConfirmStart
\* A spawned child exits, or turns out not to have been spawned.
ChildEnds == ChildClose \/ ChildError
\* The steps main of build.ts takes by itself.
MainStep ==
  CheckPrerequisites \/ ParallelMap \/ ParallelAwait \/ SeqSpawn \/ SeqResume \/ Summary

LiveNext == Next \/ WorkflowNext

LiveSpec ==
  /\ LiveInit
  /\ [][LiveNext]_vars
  /\ WF_vars(BuildPrompt)
  /\ WF_vars(ChildEnds)
  /\ WF_vars(MainStep)
  /\ WF_vars(WorkflowNext)

\* C32: every run ends with an exit status; a build run whose prompts were
\* all answered reaches the end of its summary, in parallel and in
\* sequential mode; an orchestrator run that got past its release phase
\* ends as done.
Termination ==
  /\ <>(exitCode # << >>)
  /\ (pc \in { "map", "seqLoop" }) ~> (pc = "done" /\ exitCode # << >>)
  /\ (pc = "complete") ~> (pc = "done" /\ exitCode = << 0 >>)

\* A sequential build of two targets has ended after its summary, the first
\* child having failed.
TerminationWitness ==
  /\ pc = "done"
  /\ ~ parallel
  /\ Len(children) = 2
  /\ Len(results) = 2
  /\ ~ results[1].success


(***************************************************************************)
(* The packaging script (QUICKSTART.md 281-366, 475-488): the directory    *)
(* each package_* function collects a target's libraries from, relative to *)
(* PROJECT_ROOT, which is the directory the build script runs in.          *)
(***************************************************************************)
\* local target_dir="$PROJECT_ROOT/target/release" (284).
package_native == << "target/", "release" >>
\* local target_dir="$PROJECT_ROOT/target/$target/release" (305).
package_windows(target) == << "target/", target, "/", "release" >>
\* local target_dir="$PROJECT_ROOT/target/android-output/$target" (327).
package_android(target) == << "target/", "android-output", "/", target >>
\* local target_dir="$PROJECT_ROOT/target/$target/release" (353).
package_linux_arm(target) == << "target/", target, "/", "release" >>

\* main of the packaging script (480-488): the call that packages the
\* given registry target, by its toolchain triple.
PackageDir(platform) ==
  IF ~ HasTarget(platform) THEN package_native
  ELSE IF platform.target \in { "x86_64-pc-windows-gnu", "x86_64-pc-windows-msvc" }
    THEN package_windows(platform.target)
  ELSE IF platform.target \in { "aarch64-linux-android", "armv7-linux-androideabi",
                                "x86_64-linux-android", "i686-linux-android" }
    THEN package_android(platform.target)
  ELSE package_linux_arm(platform.target)

\* The directory a path with a trailing slash names.
Directory(path) ==
  IF path # << >> /\ path[Len(path)] = "/" THEN SubSeq(path, 1, Len(path) - 1) ELSE path

\* C33: the outputPath of every successful result names the directory the
\* packaging script collects that target's libraries from.
OutputPathIsPackageDir ==
  \A k \in SettledIndices :
    promises[k].value.success =>
      Directory(promises[k].value.outputPath) = PackageDir(selectedPlatforms[k])


(***************************************************************************)
(* LegacySpec: main of the legacy release script (part_002 1262-1429) from *)
(* its first prompt on, the git check (1266-1271) having passed and        *)
(* getVersion (1274) having returned.  The build loop is TargetNext.       *)
(***************************************************************************)
legacyFrame == << probes, shell, hasCross, hasDocker, availablePlatforms, selectedPlatforms, promptVars,
                 children, promises, results, spawnLog, settleLog, summaryVars, registry,
                 currentParsed, bumpResults, quicheToml, readResults,
                 workspaceToml, currentVersion, newVersion, versionChanged, buildRan,
                 releasePrompt, textVars, release >>

LegacyInit ==
  /\ pc = "bumpPrompt"
  /\ exitCode = << >>
  /\ BuildIdle
  /\ registry = PLATFORMS
  /\ WorkflowRunIdle
  /\ currentParsed = << >>
  /\ versionAction = "unset"
  /\ bumpResults = << >>
  /\ quicheToml = << >>
  /\ readResults = << >>
  /\ TextIdle
  /\ ScriptIdle

\* process.exit(code), or the exit main().catch makes (1432-1436).
LegacyExit(at, code) ==
  /\ pc' = at
  /\ exitCode' = << code >>

\* A step of main that is no command: a manifest write, a warning.
Step(name, ok) == [kind |-> "step", name |-> name, ok |-> ok]

\* console.log(colors.warning(text)).
Warning(text) == [kind |-> "warning", text |-> text]

\* The commands of a block run one after the other until one fails:
\* the first `ran` of them, the last one failed unless all ran and ok.
RunCommands(commands, ran, ok) ==
  [k \in 1 .. ran |-> Command(commands[k], k < ran \/ ok)]

\* Lines 1277-1315: the 'bump version?' prompt and updateVersion (1084-1102),
\* which exits with 1 when the manifest has no version line or cannot be written.
LegacyChooseBump ==
  /\ pc = "bumpPrompt"
  /\ \E bump \in { "major", "minor", "patch", "skip", "cancel" } :
       CASE bump = "cancel" ->
              /\ LegacyExit("cancelled", 0)
              /\ UNCHANGED << versionAction, effects >>
         [] bump = "skip" ->
              /\ versionAction' = bump
              /\ pc' = "methodPrompt"
              /\ UNCHANGED << exitCode, effects >>
         [] OTHER ->
              /\ versionAction' = bump
              /\ \E ok \in BOOLEAN :
                   /\ effects' = Append(effects, Step("updateVersion", ok))
                   /\ IF ok THEN pc' = "methodPrompt" /\ UNCHANGED exitCode
                           ELSE LegacyExit("updateFailed", 1)
  /\ UNCHANGED << i, dialog, targetChoice, useDocker, containers, assets, legacyFrame >>

\* Lines 1320-1337: the 'build method' prompt.
LegacyChooseMethod ==
  /\ pc = "methodPrompt"
  /\ \E method \in { "docker", "native", "cancel" } :
       IF method = "cancel"
         THEN LegacyExit("cancelled", 0) /\ UNCHANGED useDocker
         ELSE /\ useDocker' = (method = "docker")
              /\ pc' = "targetPrompt"
              /\ UNCHANGED exitCode
  /\ UNCHANGED << i, dialog, effects, targetChoice, containers, versionAction, assets,
                  legacyFrame >>

\* Faulty variant of LegacySelectTargets: an empty selection goes on to the
\* artifact copy and the tarball.
LegacySelectTargetsPackagesAnyway ==
  /\ pc = "targetPrompt"
  /\ \E targets \in TargetChoices \cup { << >> } :
       /\ targetChoice' = targets
       /\ IF targets = << >>
            THEN /\ dialog' = Append(dialog, Warning(<< "no targets selected, skipping builds" >>))
                 /\ pc' = "buildsDone"
            ELSE /\ pc' = "buildTarget"
                 /\ UNCHANGED dialog
  /\ UNCHANGED << i, exitCode, effects, useDocker, containers, versionAction, assets,
                  legacyFrame >>

\* Lines 1339-1354: the 'select build targets' prompt and the test of its
\* answer.  A cancelled prompt leaves targets undefined, an answer with no
\* box ticked is the empty array: both take the first branch.
LegacySelectTargets ==
  /\ pc = "targetPrompt"
  /\ \E targets \in TargetChoices \cup { << >> } :
       /\ targetChoice' = targets
       /\ IF targets = << >>
            THEN /\ dialog' = Append(dialog, Warning(<< "no targets selected, skipping builds" >>))
                 /\ pc' = "commit"
            ELSE /\ pc' = "buildTarget"
                 /\ UNCHANGED dialog
  /\ UNCHANGED << i, exitCode, effects, useDocker, containers, versionAction, assets,
                  legacyFrame >>

\* `nwep-v${version}-${target}.tar.gz` for the last target built (1359, 1173).
TarballOf(targets) == << "nwep-v", targets[Len(targets)], ".tar.gz" >>

\* Lines 1362-1366: copyReleaseArtifacts (1127-1169) and createTarball
\* (1172-1182), whose tar command may fail and throw out of main.
LegacyPackage ==
  /\ pc = "buildsDone"
  /\ \E ok \in BOOLEAN :
       /\ effects' = effects \o << Step("copyReleaseArtifacts", TRUE), Command("tar -czf", ok) >>
       /\ IF ok THEN /\ assets' = << TarballOf(targetChoice) >>
                     /\ pc' = "commit"
                     /\ UNCHANGED exitCode
               ELSE /\ LegacyExit("fatal", 1)
                    /\ UNCHANGED assets
  /\ UNCHANGED << i, dialog, targetChoice, useDocker, containers, versionAction, legacyFrame >>

\* Lines 1369-1379: git add, git commit, git tag, when a bump was chosen; a
\* failed command is caught at 1421-1424 and the script exits with 1.
LegacyCommit ==
  /\ pc = "commit"
  /\ IF versionAction = "skip"
       THEN pc' = "complete" /\ UNCHANGED << exitCode, effects >>
       ELSE \E ran \in 1 .. 3, ok \in BOOLEAN :
              /\ effects' = effects \o RunCommands(<< "git add -A", "git commit", "git tag" >>, ran, ok)
              /\ IF ran = 3 /\ ok THEN pc' = "pushPrompt" /\ UNCHANGED exitCode
                                  ELSE LegacyExit("gitFailed", 1)
  /\ UNCHANGED << i, dialog, targetChoice, useDocker, containers, versionAction, assets,
                  legacyFrame >>

\* Lines 1381-1402: 'push commit and tag to remote?'; a failed git push is
\* retried with --set-upstream.
LegacyAskPush ==
  /\ pc = "pushPrompt"
  /\ \/ pc' = "releasePrompt" /\ UNCHANGED << exitCode, effects >>
     \/ \E pushed \in BOOLEAN, upstream \in BOOLEAN, tags \in BOOLEAN :
          LET first == << Command("git push", pushed) >>
              second == IF pushed THEN << >>
                        ELSE << Command("git push --set-upstream origin main", upstream) >>
              reached == pushed \/ upstream
              third == IF reached THEN << Command("git push --tags", tags) >> ELSE << >>
          IN /\ pushed => upstream
             /\ ~ reached => tags
             /\ effects' = effects \o first \o second \o third
             /\ IF reached /\ tags THEN pc' = "releasePrompt" /\ UNCHANGED exitCode
                                   ELSE LegacyExit("gitFailed", 1)
  /\ UNCHANGED << i, dialog, targetChoice, useDocker, containers, versionAction, assets,
                  legacyFrame >>

\* Lines 1404-1420: 'create GitHub release?'; the release is created only
\* with a tarball (releaseChoice.createRelease && tarballPath).
LegacyAskRelease ==
  /\ pc = "releasePrompt"
  /\ \E createRelease \in BOOLEAN :
       IF createRelease /\ assets # << >>
         THEN \E ok \in BOOLEAN :
                /\ effects' = Append(effects, Command("gh release create", ok))
                /\ IF ok THEN pc' = "complete" /\ UNCHANGED exitCode
                        ELSE LegacyExit("gitFailed", 1)
         ELSE pc' = "complete" /\ UNCHANGED << exitCode, effects >>
  /\ UNCHANGED << i, dialog, targetChoice, useDocker, containers, versionAction, assets,
                  legacyFrame >>

\* Line 1428: the last message; main returns and the process ends with 0.
LegacyComplete ==
  /\ pc = "complete"
  /\ LegacyExit("done", 0)
  /\ UNCHANGED << i, dialog, effects, targetChoice, useDocker, containers, versionAction,
                  assets, legacyFrame >>

LegacyNext ==
  \/ LegacyChooseBump
  \/ LegacyChooseMethod
  \/ LegacySelectTargets
  \/ TargetNext
  \/ LegacyPackage
  \/ LegacyCommit
  \/ LegacyAskPush
  \/ LegacyAskRelease
  \/ LegacyComplete

LegacySpec == LegacyInit /\ [][LegacyNext]_vars

\* The target prompt was answered with no target.
NoTargetsSelected ==
  /\ pc \notin { "bumpPrompt", "methodPrompt", "targetPrompt", "cancelled", "updateFailed" }
  /\ targetChoice = << >>
\* The positions of the log holding a build command, and a packaging step.
BuildInvocations ==
  { k \in 1 .. Len(effects) :
      effects[k].kind = "command" /\
      effects[k].command \notin { "tar -czf", "git add -A", "git commit", "git tag", "git push",
                                  "git push --set-upstream origin main", "git push --tags",
                                  "gh release create" } }
PackagingSteps ==
  { k \in 1 .. Len(effects) :
      effects[k] \in { Step("copyReleaseArtifacts", TRUE), Command("tar -czf", TRUE),
                       Command("tar -czf", FALSE) } }
CommitSteps == Ran("git commit", TRUE) \cup Ran("git commit", FALSE)

\* C34, as stated: with no target selected no build is invoked, the run goes
\* on, and a run that ends has run the packaging or the commit step.
NoTargetsStillPackaged ==
  NoTargetsSelected =>
    /\ BuildInvocations = { }
    /\ pc = "done" => PackagingSteps # { } \/ CommitSteps # { }

\* C34: with no target selected no build is invoked and nothing is packaged
\* (no artifact copy, no tarball, and so no GitHub release); the run goes on
\* to the commit step without an error of the build, commits and tags
\* exactly when a version bump was chosen, and can only fail in a git command.
NoTargetsSkipsBuilds ==
  NoTargetsSelected =>
    /\ BuildInvocations = { }
    /\ PackagingSteps = { }
    /\ assets = << >>
    /\ Ran("gh release create", TRUE) \cup Ran("gh release create", FALSE) = { }
    /\ dialog = << Warning(<< "no targets selected, skipping builds" >>) >>
    /\ pc \in { "commit", "pushPrompt", "releasePrompt", "complete", "done", "gitFailed" }
    /\ pc = "gitFailed" => versionAction # "skip"
    /\ pc \in { "pushPrompt", "releasePrompt", "complete", "done" } =>
         (Ran("git commit", TRUE) # { } <=> versionAction # "skip")

\* A run with a patch bump and no target ended with status 0 after
\* committing and tagging.
NoTargetsSkipsBuildsWitness ==
  /\ pc = "done"
  /\ targetChoice = << >>
  /\ versionAction = "patch"
  /\ exitCode = << 0 >>
  /\ Ran("git tag", TRUE) # { }
  /\ BuildInvocations = { }


(***************************************************************************)
(* The offered target set of the shipped registry, checked under Spec.     *)
(***************************************************************************)
\* main has filtered the registry (259-263).
Filtered == pc \notin { "checkPrerequisites", "fatal" }

\* C35: whatever the two probes found, the filtered list is not empty and
\* holds the native target, and main never takes the "no build targets
\* available" exit.
OfferedNeverEmpty ==
  /\ pc # "noTargets"
  /\ Filtered =>
       /\ availablePlatforms # << >>
       /\ \E k \in 1 .. Len(availablePlatforms) :
            /\ availablePlatforms[k].id = "native"
            /\ ~ RequiresCross(availablePlatforms[k])
            /\ ~ RequiresDocker(availablePlatforms[k])

\* Neither tool was found and the platform prompt offers the native target alone.
OfferedNeverEmptyWitness ==
  /\ pc = "selectPlatforms"
  /\ ~ hasCross
  /\ ~ hasDocker
  /\ Len(availablePlatforms) = 1
  /\ availablePlatforms[1].id = "native"


(***************************************************************************)
(* versionChanged and the manifests on disk, checked under WorkflowSpec.   *)
(***************************************************************************)
\* C36: whenever versionChanged is true, the version field of
\* quiche/Cargo.toml and the quiche dependency version of the workspace
\* Cargo.toml both read newVersion on disk.
VersionChangedTruthful ==
  versionChanged =>
    /\ VersionFieldIs(quicheToml, newVersion)
    /\ QuicheFieldIs(workspaceToml, newVersion)


(***************************************************************************)
(* Soundness of checkGitClean, checked under WorkflowSpec.                 *)
(***************************************************************************)
\* The calls of checkGitClean made so far, as positions of the dialog.
CleanChecks == { k \in 1 .. Len(dialog) : dialog[k].kind = "gitStatus" }

\* C37: every call of checkGitClean that returned true was made on a tree
\* without uncommitted changes, at the start of main and in the commit phase.
CleanCheckSound ==
  \A k \in CleanChecks : dialog[k].clean => dialog[k].tree = "clean"


(***************************************************************************)
(* Order of release creation and uploads, checked under ReleaseSpec.       *)
(***************************************************************************)
\* The positions of the log at which an asset upload was attempted.
UploadAttempts ==
  { k \in 1 .. Len(effects) : effects[k].command[1] = "gh release upload" }
\* Every selected platform was packaged, in order.
AllPackaged == assets = selectedPlatforms

\* C38: in a run whose release lookup failed, every upload attempt comes
\* after a successful gh release create; and uploads are attempted only
\* when every selected platform was packaged.
CreateBeforeUpload ==
  /\ Ran(<< "gh release view" >>, FALSE) # { } =>
       \A u \in UploadAttempts :
         \E c \in Ran(<< "gh release create" >>, TRUE) : c < u
  /\ UploadAttempts # { } => AllPackaged

\* The second half of C38 alone.
UploadOnlyAfterPackaging == UploadAttempts # { } => AllPackaged


(***************************************************************************)
(* CommitSpec: main of the commit script (part_002 110-527) from the       *)
(* 'Create this commit?' prompt on.  Its exec (46-58) is silent unless     *)
(* told otherwise: a silent command that fails returns '' and throws       *)
(* nothing.  The version a tag is named after is left out.                 *)
(***************************************************************************)
commitFrame == << probes, shell, hasCross, hasDocker, availablePlatforms, selectedPlatforms, promptVars,
                 i, children, promises, results, spawnLog, settleLog, summaryVars, registry,
                 currentParsed, versionAction, bumpResults, quicheToml, readResults,
                 workspaceToml, currentVersion, newVersion, versionChanged, buildRan,
                 releasePrompt, textVars, scriptVars >>

CommitInit ==
  /\ pc = "confirmCommit"
  /\ exitCode = << >>
  /\ BuildIdle
  /\ registry = PLATFORMS
  /\ WorkflowRunIdle
  /\ currentParsed = << >>
  /\ versionAction = "unset"
  /\ bumpResults = << >>
  /\ quicheToml = << >>
  /\ readResults = << >>
  /\ TextIdle
  /\ ScriptIdle

\* spinner.stop(text), outro(text): a line the script reports.
Said(text) == [kind |-> "said", text |-> text]

\* outro(text) or cancel(text), then process.exit(code).
CommitExit(text, code) ==
  /\ dialog' = Append(dialog, Said(text))
  /\ pc' = "commitExited"
  /\ exitCode' = << code >>

\* 'Create a version tag?' was answered yes (const shouldTag).
ShouldTag ==
  \E k \in 1 .. Len(dialog) : dialog[k] = Confirm(<< "Create a version tag?" >>, FALSE, "yes")

\* Lines 312-332: 'Create this commit?' and git commit, run by the silent exec.
ConfirmCommit ==
  /\ pc = "confirmCommit"
  /\ \E confirmCommit \in Answers :
       IF confirmCommit # "yes"
         THEN /\ CommitExit("Commit cancelled.", 0)
              /\ UNCHANGED effects
         ELSE \E ok \in BOOLEAN :
                /\ effects' = Append(effects, Command("git commit", ok))
                /\ dialog' = Append(dialog, Said("Commit created successfully"))
                /\ pc' = "tagPrompt"
                /\ UNCHANGED exitCode
  /\ UNCHANGED commitFrame

\* Lines 334-343: 'Create a version tag?'.
AskTag ==
  /\ pc = "tagPrompt"
  /\ \E shouldTag \in Answers :
       CASE shouldTag = "cancel" ->
              /\ dialog' = dialog \o << Confirm(<< "Create a version tag?" >>, FALSE, shouldTag),
                                        Said("Commit created (no tag)") >>
              /\ pc' = "commitExited"
              /\ exitCode' = << 0 >>
         [] OTHER ->
              /\ dialog' = Append(dialog, Confirm(<< "Create a version tag?" >>, FALSE, shouldTag))
              /\ pc' = IF shouldTag = "yes" THEN "tagType" ELSE "pushPrompt"
              /\ UNCHANGED exitCode
  /\ UNCHANGED << effects, commitFrame >>

\* Lines 345-410: the bump prompt, 'Enter version:' for a custom version,
\* 'Tag message (optional):' and git tag -a, run by the silent exec.
CreateTag ==
  /\ pc = "tagType"
  /\ \E tagType \in { "patch", "minor", "major", "custom", "current", "cancel" },
        customCancelled \in BOOLEAN, messageCancelled \in BOOLEAN, ok \in BOOLEAN :
       /\ customCancelled => tagType = "custom"
       /\ IF tagType = "cancel" \/ customCancelled \/ messageCancelled
            THEN /\ ok
                 /\ tagType = "cancel" => ~ messageCancelled
                 /\ customCancelled => ~ messageCancelled
                 /\ CommitExit("Commit created (no tag)", 0)
                 /\ UNCHANGED effects
            ELSE /\ effects' = Append(effects, Command("git tag", ok))
                 /\ dialog' = Append(dialog, Said("Tag created"))
                 /\ pc' = "pushPrompt"
                 /\ UNCHANGED exitCode
  /\ UNCHANGED commitFrame

\* Lines 413-466: 'Push to remote?', the origin check and the prompts that
\* add the remote (git remote add is run by the silent exec).
AskPush ==
  /\ pc = "pushPrompt"
  /\ \E shouldPush \in Answers :
       CASE shouldPush = "cancel" ->
              CommitExit("Commit created locally", 0) /\ UNCHANGED effects
         [] shouldPush = "no" ->
              /\ pc' = "allDone"
              /\ dialog' = Append(dialog, Confirm(<< "Push to remote?" >>, TRUE, "no"))
              /\ UNCHANGED << exitCode, effects >>
         [] OTHER ->
              \E hasOrigin \in BOOLEAN, addRemote \in BOOLEAN, ok \in BOOLEAN :
                IF hasOrigin
                  THEN /\ addRemote /\ ok
                       /\ pc' = "confirmPush"
                       /\ dialog' = Append(dialog, Confirm(<< "Push to remote?" >>, TRUE, "yes"))
                       /\ UNCHANGED << exitCode, effects >>
                  ELSE IF ~ addRemote
                    THEN /\ ok
                         /\ CommitExit("Commit created locally (not pushed)", 0)
                         /\ UNCHANGED effects
                    ELSE /\ effects' = Append(effects, Command("git remote add origin", ok))
                         /\ dialog' = dialog \o << Confirm(<< "Push to remote?" >>, TRUE, "yes"),
                                                   Said("Remote added") >>
                         /\ pc' = "confirmPush"
                         /\ UNCHANGED exitCode
  /\ UNCHANGED commitFrame

\* Lines 474-510: 'Push to origin/<branch>?', git push and git push --tags,
\* both run with silent = false: a failure is caught and the script exits with 1.
ConfirmPush ==
  /\ pc = "confirmPush"
  /\ \E confirmPush \in BOOLEAN, pushed \in BOOLEAN, tagsPushed \in BOOLEAN :
       IF ~ confirmPush
         THEN /\ pushed /\ tagsPushed
              /\ CommitExit("Commit created locally (not pushed)", 0)
              /\ UNCHANGED effects
         ELSE LET first == << Command("git push origin", pushed) >>
                  second == IF pushed /\ ShouldTag
                              THEN << Command("git push --tags", tagsPushed) >> ELSE << >>
              IN /\ ~ (pushed /\ ShouldTag) => tagsPushed
                 /\ effects' = effects \o first \o second
                 /\ IF pushed /\ tagsPushed
                      THEN /\ pc' = "allDone"
                           /\ dialog' = Append(dialog, Said("Pushed"))
                           /\ UNCHANGED exitCode
                      ELSE /\ dialog' = Append(dialog,
                                  Said("Commit and tag created locally but not pushed"))
                           /\ pc' = "commitExited"
                           /\ exitCode' = << 1 >>
  /\ UNCHANGED commitFrame

\* Lines 513-524: the success outro; main returns and the process ends with 0.
AllDone ==
  /\ pc = "allDone"
  /\ CommitExit("All done!", 0)
  /\ UNCHANGED << effects, commitFrame >>

CommitNext ==
  \/ ConfirmCommit
  \/ AskTag
  \/ CreateTag
  \/ AskPush
  \/ ConfirmPush
  \/ AllDone

CommitSpec == CommitInit /\ [][CommitNext]_vars

\* The script has reported the line.
Reported(text) == \E k \in 1 .. Len(dialog) : dialog[k] = Said(text)
\* The tag prompt was shown.
TagOffered ==
  \E k \in 1 .. Len(dialog) :
    dialog[k].kind = "confirm" /\ dialog[k].message = << "Create a version tag?" >>

\* C39: the commit is reported as created, and tagging and pushing are
\* offered, only if git commit succeeded; the tag is reported as created and
\* pushed only if git tag succeeded; and a run in which git commit or git
\* tag failed ends with a non-zero status.
OnlyRealCommitsReported ==
  /\ Reported("Commit created successfully") => Ran("git commit", TRUE) # { }
  /\ (TagOffered \/ pc \in { "tagPrompt", "tagType", "pushPrompt", "confirmPush" }) =>
       Ran("git commit", TRUE) # { }
  /\ Reported("Tag created") => Ran("git tag", TRUE) # { }
  /\ Ran("git push --tags", TRUE) \cup Ran("git push --tags", FALSE) # { } =>
       Ran("git tag", TRUE) # { }
  /\ (exitCode # << >> /\ Ran("git commit", FALSE) \cup Ran("git tag", FALSE) # { }) =>
       exitCode = << 1 >>

(***************************************************************************)
(* check-deps.sh (part_001): the dependency checker.  The script runs      *)
(* under set -e.  Its counters are updated by ((n++)) commands, whose exit *)
(* status is 1 when the value of the expression, the old n, is 0.          *)
(***************************************************************************)

\* Lines 58-65: the commands of the required checks, in call order.
RequiredCommands ==
  << "rustc", "cargo", "node", "npm", "clang", "cmake", "git", "pkg-config" >>

\* Lines 100, 107, 111: the optional tools looked for.
OptionalCommands == { "cross", "docker", "buildx" }

\* Lines 138-148: the three library checks, every one a lookup of pkg-config.
LibraryChecks == << "expat", "freetype", "fontconfig" >>

\* What can be installed on the machine: buildx is a docker subcommand.
Machines ==
  { m \in SUBSET ({ RequiredCommands[k] : k \in 1 .. Len(RequiredCommands) } \cup OptionalCommands) :
      "buildx" \in m => "docker" \in m }

\* Lines 5, 15-18: the shell after the counters are set.  arithErrexit is the
\* bash that runs the script: from bash 4.1 on set -e applies to a ((...))
\* command, in bash 3.2 (/bin/bash of macOS) it does not.
ShellStart(machine, arith) ==
  [ installed        |-> machine,
    arithErrexit     |-> arith,
    REQUIRED_MISSING |-> 0,
    OPTIONAL_MISSING |-> 0,
    REQUIRED_TOTAL   |-> 0,
    OPTIONAL_TOTAL   |-> 0,
    next             |-> 1,
    checked          |-> << >> ]

\* Exit status of ((n++)): the expression has the old value of n.
ArithStatus(old) == IF old = 0 THEN 1 ELSE 0

\* ((counter++)) at a place where set -e is in force (errexit) or ignored:
\* the shell after it and whether the script ends there.
Increment(sh, counter, errexit) ==
  [ shell  |-> [sh EXCEPT ![counter] = @ + 1],
    status |-> ArithStatus(sh[counter]),
    exited |-> errexit /\ sh.arithErrexit /\ ArithStatus(sh[counter]) # 0 ]

\* Lines 24-52: check_command cmd flag required name.  errexit is FALSE when
\* the call is the condition of an if or a member of an && || list, where
\* set -e is ignored for the whole function body.
check_command(sh, cmd, required, errexit) ==
  LET total   == IF required = "required" THEN "REQUIRED_TOTAL" ELSE "OPTIONAL_TOTAL"
      missing == IF required = "required" THEN "REQUIRED_MISSING" ELSE "OPTIONAL_MISSING"
      counted == Increment(sh, total, errexit)
      noted   == Increment(counted.shell, missing, errexit)
  IN  IF counted.exited THEN counted
      ELSE IF cmd \in sh.installed
        THEN [ shell |-> counted.shell, status |-> 0, exited |-> FALSE ]
        ELSE IF noted.exited THEN noted
        ELSE [ shell |-> noted.shell, status |-> 1, exited |-> FALSE ]

\* The checks of the script that have printed their line.
Checked(sh, name) == [sh EXCEPT !.checked = Append(@, name)]

depsFrame == << probes, hasCross, hasDocker, availablePlatforms, selectedPlatforms, promptVars,
                buildVars, summaryVars, registry, currentParsed, versionAction,
                bumpResults, quicheToml, readResults, workflowVars, textVars,
                scriptVars >>

DepsInit ==
  /\ pc = "checkRequired"
  /\ exitCode = << >>
  /\ probes = << >>
  /\ hasCross = FALSE
  /\ hasDocker = FALSE
  /\ availablePlatforms = << >>
  /\ selectedPlatforms = << >>
  /\ buildMode = "unset"
  /\ features = << >>
  /\ parallel = FALSE
  /\ verbose = FALSE
  /\ i = 1
  /\ children = << >>
  /\ promises = << >>
  /\ results = << >>
  /\ successful = << >>
  /\ failed = << >>
  /\ spawnLog = << >>
  /\ settleLog = << >>
  /\ registry = PLATFORMS
  /\ WorkflowIdle
  /\ shell \in { ShellStart(machine, arith) : machine \in Machines, arith \in BOOLEAN }

\* set -e ends the script with the status of the command that failed.
Errexit(sh) ==
  /\ shell' = sh
  /\ pc' = "errexit"
  /\ exitCode' = << 1 >>

\* Lines 58-65: one plain call of check_command.  The call is a simple
\* command of the script: set -e ends the script when it returns 1.
CheckRequired ==
  /\ pc = "checkRequired"
  /\ LET cmd == RequiredCommands[shell.next]
         r   == check_command(shell, cmd, "required", TRUE)
     IN  IF r.exited \/ r.status # 0
           THEN Errexit(r.shell)
           ELSE /\ shell' = [Checked(r.shell, cmd) EXCEPT !.next = @ + 1]
                /\ pc' = IF shell.next = Len(RequiredCommands)
                           THEN "checkCross" ELSE "checkRequired"
                /\ exitCode' = exitCode
  /\ UNCHANGED depsFrame

\* Lines 100-104: if check_command "cross" ... "optional".
CheckCross ==
  /\ pc = "checkCross"
  /\ LET r == check_command(shell, "cross", "optional", FALSE)
     IN  shell' = Checked(r.shell, "cross")
  /\ pc' = "checkDocker"
  /\ UNCHANGED << exitCode, depsFrame >>

\* Lines 107-131: if check_command "docker" ... "optional", and in its then
\* branch the buildx check, whose counter update of line 117 is a plain
\* command.
CheckDocker ==
  /\ pc = "checkDocker"
  /\ LET r == check_command(shell, "docker", "optional", FALSE)
         b == Increment(r.shell, "OPTIONAL_MISSING", TRUE)
     IN  IF r.status = 0 /\ "buildx" \notin shell.installed
           THEN IF b.exited
                  THEN Errexit(b.shell)
                  ELSE /\ shell' = [Checked(b.shell, "docker") EXCEPT !.next = 1]
                       /\ pc' = "checkLibraries"
                       /\ exitCode' = exitCode
           ELSE /\ shell' = [Checked(r.shell, "docker") EXCEPT !.next = 1]
                /\ pc' = "checkLibraries"
                /\ exitCode' = exitCode
  /\ UNCHANGED depsFrame

\* Lines 138-148: check_command "pkg-config" flag "" "optional" library in an
\* && || list: the third argument is empty, the check counts as optional.
CheckLibrary ==
  /\ pc = "checkLibraries"
  /\ LET r == check_command(shell, "pkg-config", "", FALSE)
     IN  shell' = [Checked(r.shell, LibraryChecks[shell.next]) EXCEPT !.next = @ + 1]
  /\ pc' = IF shell.next = Len(LibraryChecks) THEN "exitSelect" ELSE "checkLibraries"
  /\ UNCHANGED << exitCode, depsFrame >>

\* Lines 237-245: exit 1 if a required dependency is missing, else exit 0.
ExitSelect ==
  /\ pc = "exitSelect"
  /\ exitCode' = IF shell.REQUIRED_MISSING > 0 THEN << 1 >> ELSE << 0 >>
  /\ pc' = "done"
  /\ UNCHANGED << shell, depsFrame >>

DepsNext ==
  \/ CheckRequired
  \/ CheckCross
  \/ CheckDocker
  \/ CheckLibrary
  \/ ExitSelect

DepsSpec == DepsInit /\ [][DepsNext]_vars

\* A required command is not installed.
RequiredMissing ==
  \E k \in 1 .. Len(RequiredCommands) : RequiredCommands[k] \notin shell.installed

\* C40: the script never stops at a counter update or at a failed check: it
\* ends at its exit selection, with status 1 if a required dependency is
\* missing and with status 0 otherwise, a missing optional dependency alone
\* never making the status non-zero.
DepsExitStatus ==
  /\ pc # "errexit"
  /\ exitCode # << >> =>
       /\ pc = "done"
       /\ exitCode = IF RequiredMissing THEN << 1 >> ELSE << 0 >>


====
